---- MODULE Spec2Model ----
(***************************************************************************)
(* Versioned-resource engine of the dashboard app:                         *)
(*   - the resource history store (resource_history table, read by the     *)
(*     resource_history_get query),                                        *)
(*   - the kind registry of the dashboard manifest (kindVersionToGoType),  *)
(*   - the unified dashboard scene page state manager with its version     *)
(*     fallback and its two caches,                                        *)
(*   - the AWS credential cache of the CloudWatch API (GetCredentials),    *)
(*   - the update checker (GrafanaService.checkForUpdates).                *)
(* Each component has its own specification: SpecStore, SpecRegistry, and  *)
(* for the manager Spec (the fetches with their version fallback),         *)
(* SpecPage (loads and reloads by two callers), SpecCache (one caller and   *)
(* the cache operations), SpecScene (transformResponseToScene on responses *)
(* of several revisions), SpecDirect (the v1 and the v2 manager used on    *)
(* their own), SpecSnapshot (fetches and snapshot loads), SpecRaw (the    *)
(* raw dashboard cache written and read directly) and SpecSnapshotScene    *)
(* (loadSnapshotScene with its fallback); SpecAws for the credential       *)
(* cache and SpecUpdate for the update checker. A                          *)
(* specification leaves the variables of the other components at their     *)
(* initial values.                                                         *)
(***************************************************************************)
EXTENDS Naturals, Integers, Sequences, FiniteSets, TLC

VARIABLES
    resource_history,      \* the rows of table "resource_history"
    writers,               \* the AppendVersion call of each writer
    overlap,               \* the pairs of writers whose calls were in flight together
    kindVersionToGoType,   \* the manifest's map "Kind/version" -> resource.Kind
    resolved,              \* what ManifestGoTypeAssociator returned, per pair
    stored,                \* backend: the apiVersion each dashboard is stored in
    now,                   \* Date.now()
    activeManager,         \* UnifiedDashboardScenePageStateManager.activeManager
    dashboardCache,        \* dashboardCache of the v1, v2 and unified manager
    cache,                 \* scene cache of the v1, v2 and unified manager
    state,                 \* page state of the v1, v2 and unified manager
    calls,                 \* the asynchronous calls on the unified manager
    lastIssued,            \* the call that issued the latest loadDashboard
    read,                  \* what the latest cache read returned
    awsCredentialCache,    \* cloudwatch: map cacheKey -> cache{credential, expiration}
    credentialCacheLock,   \* cloudwatch: the RWMutex guarding awsCredentialCache
    getters,               \* cloudwatch: the GetCredentials call of each goroutine
    utc,                   \* cloudwatch: time.Now().UTC()
    builds,                \* cloudwatch: the credentials built so far
    hasUpdate,             \* GrafanaService.hasUpdate
    latestVersion,         \* GrafanaService.latestVersion
    grafanaVersion,        \* GrafanaService.grafanaVersion
    mutex,                 \* GrafanaService.mutex
    checker,               \* the checkForUpdates call of the Run goroutine
    readers                \* the UpdateAvailable / LatestVersion calls

storeVars == <<resource_history, writers, overlap>>
registryVars == <<kindVersionToGoType, resolved>>
managerVars == <<stored, now, activeManager, dashboardCache, cache, state, calls,
                 lastIssued, read>>
awsVars == <<awsCredentialCache, credentialCacheLock, getters, utc, builds>>
updateVars == <<hasUpdate, latestVersion, grafanaVersion, mutex, checker, readers>>
serviceVars == <<awsVars, updateVars>>
vars == <<resource_history, writers, overlap, kindVersionToGoType, resolved,
          stored, now, activeManager, dashboardCache, cache, state, calls,
          lastIssued, read, awsCredentialCache, credentialCacheLock, getters,
          utc, builds, hasUpdate, latestVersion, grafanaVersion, mutex, checker,
          readers>>

(***************************************************************************)
(* Bounds of the model                                                     *)
(***************************************************************************)
MaxVersion == 3
MaxTicks == 2
MaxRevision == 2

(***************************************************************************)
(* 1. Resource history store                                               *)
(***************************************************************************)
NoFolder == "<null>"
NotFound == [error |-> "NotFound"]

\* The identity of the query's WHERE clause and a neighbour of it that differs
\* from it in the last column only.
Identities ==
    { [namespace |-> "nn", group |-> "gg", resource |-> "rr", name |-> "name"],
      [namespace |-> "nn", group |-> "gg", resource |-> "rr", name |-> "other"] }

Writers == {"w1", "w2"}

\* What each caller writes: its encoded payload and its (nullable) folder.
InputOf(w) ==
    IF w = "w1" THEN [value |-> "a", folder |-> NoFolder]
    ELSE [value |-> "b", folder |-> "f1"]

\* WHERE 1 = 1 AND "namespace" = ? AND "group" = ? AND "resource" = ? AND "name" = ?
MatchesIdentity(row, id) ==
    /\ row.namespace = id.namespace
    /\ row.group = id.group
    /\ row.resource = id.resource
    /\ row.name = id.name

RowsOf(rows, id) == {row \in rows : MatchesIdentity(row, id)}

\* ORDER BY "resource_version" DESC: the rows as a sequence, highest first.
RECURSIVE OrderByVersionDesc(_)
OrderByVersionDesc(rows) ==
    IF rows = {} THEN <<>>
    ELSE LET top == CHOOSE r \in rows :
                        \A q \in rows : q.resource_version <= r.resource_version
         IN  <<top>> \o OrderByVersionDesc(rows \ {top})

\* A plausible slip in the query: the "name" predicate is left out.
ListHistoryNoName(rows, id) ==
    OrderByVersionDesc({row \in rows : /\ row.namespace = id.namespace
                                       /\ row.group = id.group
                                       /\ row.resource = id.resource})

\* resource_history_get: the history of one object, newest first.
ListHistory(rows, id) == OrderByVersionDesc(RowsOf(rows, id))

\* The current (maximum) resource_version of an identity, 0 when it has no row.
CurrentVersion(rows, id) ==
    LET vs == {row.resource_version : row \in RowsOf(rows, id)}
    IN  IF vs = {} THEN 0 ELSE CHOOSE v \in vs : \A u \in vs : u <= v

\* GetLatest(identity): the highest-versioned record, or NotFound.
GetLatest(rows, id) ==
    LET mine == RowsOf(rows, id)
    IN  IF mine = {} THEN NotFound
        ELSE CHOOSE r \in mine : r.resource_version = CurrentVersion(rows, id)

\* GetAtVersion(identity, version): the query with its exact-version predicate.
GetAtVersion(rows, id, v) ==
    LET hit == {row \in RowsOf(rows, id) : row.resource_version = v}
    IN  IF hit = {} THEN NotFound ELSE CHOOSE r \in hit : TRUE

NewRecord(id, v, payload, folder) ==
    [guid |-> <<id.namespace, id.group, id.resource, id.name, v>>,
     resource_version |-> v,
     namespace |-> id.namespace, group |-> id.group, resource |-> id.resource,
     name |-> id.name, folder |-> folder, value |-> payload]

IdleWriter ==
    [pc |-> "idle", identity |-> CHOOSE id \in Identities : TRUE, expected |-> 0,
     value |-> "a", folder |-> NoFolder, result |-> "none"]

\* A call that has returned: its arguments are kept, its payload is released.
Done(c, result) ==
    [pc |-> "done", identity |-> c.identity, expected |-> c.expected,
     value |-> IdleWriter.value, folder |-> IdleWriter.folder, result |-> result]

\* The pairs of writers one of which is w.
PairsOf(w) == {{w, u} : u \in Writers \ {w}}

\* A caller issues AppendVersion(identity, payload, folder, expectedPreviousVersion).
\* overlap records which calls are in flight at the same time.
BeginAppend(w, id, exp) ==
    /\ writers[w].pc \in {"idle", "done"}
    /\ exp < MaxVersion
    /\ writers' = [writers EXCEPT ![w] =
         [pc |-> "pending", identity |-> id, expected |-> exp,
          value |-> InputOf(w).value, folder |-> InputOf(w).folder,
          result |-> "none"]]
    /\ overlap' = (overlap \ PairsOf(w))
                    \cup {{w, u} : u \in {x \in Writers \ {w} : writers[x].pc = "pending"}}
    /\ UNCHANGED resource_history
    /\ UNCHANGED <<registryVars, managerVars, serviceVars>>

\* A store without the compare-and-swap: every call appends expected + 1.
AppendVersionUnchecked(w) ==
    /\ writers[w].pc = "pending"
    /\ LET c == writers[w] IN
         /\ resource_history' = resource_history \cup
              {NewRecord(c.identity, c.expected + 1, c.value, c.folder)}
         /\ writers' = [writers EXCEPT ![w] = Done(c, "ok")]
    /\ UNCHANGED overlap
    /\ UNCHANGED <<registryVars, managerVars, serviceVars>>

\* A store that allocates the version after the current one, whatever was expected.
AppendVersionLastWins(w) ==
    /\ writers[w].pc = "pending"
    /\ LET c == writers[w]
           cur == CurrentVersion(resource_history, c.identity) IN
         /\ cur < MaxVersion
         /\ resource_history' = resource_history \cup
              {NewRecord(c.identity, cur + 1, c.value, c.folder)}
         /\ writers' = [writers EXCEPT ![w] = Done(c, "ok")]
    /\ UNCHANGED overlap
    /\ UNCHANGED <<registryVars, managerVars, serviceVars>>

\* A store that keeps one row per identity and version and overwrites it.
AppendVersionUpsert(w) ==
    /\ writers[w].pc = "pending"
    /\ LET c == writers[w] IN
         /\ resource_history' =
              {r \in resource_history :
                  ~(MatchesIdentity(r, c.identity) /\ r.resource_version = c.expected + 1)}
              \cup {NewRecord(c.identity, c.expected + 1, c.value, c.folder)}
         /\ writers' = [writers EXCEPT ![w] = Done(c, "ok")]
    /\ UNCHANGED overlap
    /\ UNCHANGED <<registryVars, managerVars, serviceVars>>

\* AppendVersion: compare-and-swap on the expected previous version.
AppendVersion(w) ==
    /\ writers[w].pc = "pending"
    /\ LET c == writers[w]
           cur == CurrentVersion(resource_history, c.identity) IN
         IF cur = c.expected
         THEN /\ resource_history' = resource_history \cup
                   {NewRecord(c.identity, c.expected + 1, c.value, c.folder)}
              /\ writers' = [writers EXCEPT ![w] = Done(c, "ok")]
         ELSE /\ resource_history' = resource_history
              /\ writers' = [writers EXCEPT ![w] = Done(c, "Conflict")]
    /\ UNCHANGED overlap
    /\ UNCHANGED <<registryVars, managerVars, serviceVars>>

InitStoreVars ==
    /\ resource_history = {}
    /\ writers = [w \in Writers |-> IdleWriter]
    /\ overlap = {}

NextStore ==
    \/ \E w \in Writers, id \in Identities, exp \in 0..MaxVersion :
         BeginAppend(w, id, exp)
    \/ \E w \in Writers : AppendVersion(w)

(***************************************************************************)
(* Claims on the resource history store (checked under SpecStore)          *)
(***************************************************************************)
Committing(w) == writers[w].pc = "pending" /\ writers'[w].pc = "done"

\* C1: AppendVersion succeeds only when the current maximum resource_version of
\* the identity equals expectedPreviousVersion (0 when it has no record, the new
\* version is then 1), and then adds exactly one record, with resource_version =
\* expectedPreviousVersion + 1 and the payload and folder given; in every other
\* case it returns Conflict and the table is unchanged.
C1_AppendVersionContract ==
    [][\A w \in Writers :
         Committing(w) =>
           LET c == writers[w]
               cur == CurrentVersion(resource_history, c.identity)
               added == resource_history' \ resource_history
           IN  IF cur = c.expected
               THEN /\ writers'[w].result = "ok"
                    /\ resource_history \subseteq resource_history'
                    /\ Cardinality(added) = 1
                    /\ \A r \in added :
                         /\ MatchesIdentity(r, c.identity)
                         /\ r.resource_version = c.expected + 1
                         /\ r.value = c.value
                         /\ r.folder = c.folder
                         /\ (RowsOf(resource_history, c.identity) = {}
                               => r.resource_version = 1)
               ELSE /\ writers'[w].result = "Conflict"
                    /\ resource_history' = resource_history]_vars

\* Both outcomes have happened: a call that found its expected version (not the
\* first one of its identity) and succeeded, and a call that was refused.
C1_Witness ==
    /\ \E w \in Writers : /\ writers[w].pc = "done"
                          /\ writers[w].result = "ok"
                          /\ writers[w].expected >= 1
    /\ \E w \in Writers : /\ writers[w].pc = "done"
                          /\ writers[w].result = "Conflict"

VersionsOf(rows, id) == {r.resource_version : r \in RowsOf(rows, id)}

\* C2: in every reachable state the resource_version values of each identity are
\* exactly 1..n (n >= 0), no two records of it share a version, and every
\* appended record carries a version above all earlier ones of its identity.
C2_VersionsGapFree ==
    /\ [](\A id \in Identities :
            /\ VersionsOf(resource_history, id)
                 = 1..CurrentVersion(resource_history, id)
            /\ Cardinality(RowsOf(resource_history, id))
                 = CurrentVersion(resource_history, id))
    /\ [][\A r \in resource_history' \ resource_history :
            \A q \in resource_history :
               MatchesIdentity(q, [namespace |-> r.namespace, group |-> r.group,
                                   resource |-> r.resource, name |-> r.name])
                 => q.resource_version < r.resource_version]_vars

\* Successful and conflicting writes have both happened and one identity holds
\* versions 1, 2, 3.
C2_Witness ==
    /\ \E id \in Identities : VersionsOf(resource_history, id) = {1, 2, 3}
    /\ \E w \in Writers : writers[w].pc = "done" /\ writers[w].result = "Conflict"

SameCall(w, u) ==
    /\ writers[w].identity = writers[u].identity
    /\ writers[w].expected = writers[u].expected

\* C3 as stated: of two calls in flight together on the same identity with the
\* same expectedPreviousVersion, exactly one succeeds.
C3_ExactlyOneAlways ==
    \A w \in Writers, u \in Writers :
       (/\ w # u
        /\ {w, u} \in overlap
        /\ writers[w].pc = "done"
        /\ writers[u].pc = "done"
        /\ SameCall(w, u))
         => \/ writers[w].result = "ok" /\ writers[u].result = "Conflict"
            \/ writers[w].result = "Conflict" /\ writers[u].result = "ok"

\* C3, amended: of the calls in flight together on the same identity with the
\* same expectedPreviousVersion at most one succeeds and the others receive
\* Conflict; the first of them to commit succeeds when that version is the
\* current one, and from then on the others can only be refused. A commit on
\* one identity leaves the current version of every other identity unchanged,
\* so it never makes a call on another identity conflict.
C3_AtMostOneAndOneIfCurrent ==
    /\ [](\A w \in Writers, u \in Writers :
            (/\ w # u
             /\ {w, u} \in overlap
             /\ writers[w].pc = "done"
             /\ writers[u].pc = "done"
             /\ SameCall(w, u))
              => /\ ~(writers[w].result = "ok" /\ writers[u].result = "ok")
                 /\ {writers[w].result, writers[u].result} \subseteq {"ok", "Conflict"})
    /\ [][\A w \in Writers :
            Committing(w) =>
              LET c == writers[w] IN
              /\ \A u \in Writers \ {w} :
                   (/\ writers[u].pc = "pending"
                    /\ SameCall(w, u)
                    /\ c.expected = CurrentVersion(resource_history, c.identity))
                     => /\ writers'[w].result = "ok"
                        /\ CurrentVersion(resource_history', c.identity) # c.expected
              /\ \A id \in Identities \ {c.identity} :
                   CurrentVersion(resource_history', id)
                     = CurrentVersion(resource_history, id)]_vars

\* Two calls that were in flight together, same identity, same expected version:
\* one has succeeded and the other was refused.
C3_Witness ==
    \E w \in Writers, u \in Writers :
       /\ w # u
       /\ {w, u} \in overlap
       /\ writers[w].pc = "done"
       /\ writers[u].pc = "done"
       /\ SameCall(w, u)
       /\ writers[w].result = "ok"
       /\ writers[u].result = "Conflict"

\* C4: no step changes or removes a record; GetAtVersion(identity, v) of a
\* version that exists returns the same record after every step, whatever is
\* appended to that or another identity, and right after a successful append it
\* returns the payload that was written.
C4_RecordsImmutable ==
    [][/\ resource_history \subseteq resource_history'
       /\ \A id \in Identities :
            \A v \in VersionsOf(resource_history, id) :
               GetAtVersion(resource_history', id, v)
                 = GetAtVersion(resource_history, id, v)
       /\ \A w \in Writers :
            (Committing(w) /\ writers'[w].result = "ok") =>
               LET got == GetAtVersion(resource_history', writers[w].identity,
                                       writers[w].expected + 1)
               IN  got # NotFound /\ got.value = writers[w].value]_vars

\* An identity holds three versions, the first two with different payloads, and
\* the other identity has been written to as well.
C4_Witness ==
    \E id \in Identities :
       /\ VersionsOf(resource_history, id) = {1, 2, 3}
       /\ GetAtVersion(resource_history, id, 1).value
            # GetAtVersion(resource_history, id, 2).value
       /\ \E other \in Identities \ {id} : RowsOf(resource_history, other) # {}

TheIdentity == [namespace |-> "nn", group |-> "gg", resource |-> "rr", name |-> "name"]

\* C5: ListHistory(identity) returns exactly the records whose namespace, group,
\* resource and name all match, ordered strictly descending by resource_version
\* (versions n, n-1, ..., 1), and its first element is the record GetLatest
\* returns (NotFound exactly when the list is empty).
C5_ListHistoryDescending ==
    \A id \in Identities :
       LET h == ListHistory(resource_history, id) IN
       /\ \A i \in 1..Len(h) :
            /\ h[i] \in resource_history
            /\ h[i].namespace = id.namespace
            /\ h[i].group = id.group
            /\ h[i].resource = id.resource
            /\ h[i].name = id.name
       /\ \A r \in resource_history :
            (r.namespace = id.namespace /\ r.group = id.group
               /\ r.resource = id.resource /\ r.name = id.name)
              => \E i \in 1..Len(h) : h[i] = r
       /\ \A i \in 1..Len(h) : \A j \in 1..Len(h) :
            i < j => h[i].resource_version > h[j].resource_version
       /\ [i \in 1..Len(h) |-> h[i].resource_version]
            = [i \in 1..Len(h) |-> Len(h) + 1 - i]
       /\ IF h = <<>> THEN GetLatest(resource_history, id) = NotFound
          ELSE h[1] = GetLatest(resource_history, id)

\* Writes that produced versions 1, 2, 3 of (nn, gg, rr, name) are listed as
\* [3, 2, 1], while the neighbouring identity has records of its own.
C5_Witness ==
    /\ Len(ListHistory(resource_history, TheIdentity)) = 3
    /\ [i \in 1..3 |-> ListHistory(resource_history, TheIdentity)[i].resource_version]
         = <<3, 2, 1>>
    /\ \E r \in resource_history : r.name # TheIdentity.name

(***************************************************************************)
(* 2. Kind registry (dashboard manifest)                                   *)
(***************************************************************************)
\* resource.Kind of the Dashboard schema of one version: group, version, kind,
\* plural and scope of NewSimpleSchema, with the JSON codec.
DashboardKind(version) ==
    [group |-> "dashboard.grafana.app", version |-> version, kind |-> "Dashboard",
     plural |-> "dashboards", scope |-> "Namespaced", codec |-> "json"]

\* The zero value of resource.Kind, which a Go map lookup yields for a missing key.
ZeroKind ==
    [group |-> "", version |-> "", kind |-> "", plural |-> "", scope |-> "",
     codec |-> ""]

\* appManifestData.Kinds[0].Versions
ManifestVersions == <<"v0alpha1", "v1beta1", "v2alpha1", "v2alpha2">>

\* fmt.Sprintf("%s/%s", kind, version)
KeyOf(kind, version) == kind \o "/" \o version

\* var kindVersionToGoType = map[string]resource.Kind{...}
KindVersionToGoTypeLiteral ==
    [k \in {"Dashboard/v0alpha1", "Dashboard/v1beta1", "Dashboard/v2alpha1",
            "Dashboard/v2alpha2"} |->
       CASE k = "Dashboard/v0alpha1" -> DashboardKind("v0alpha1")
         [] k = "Dashboard/v1beta1" -> DashboardKind("v1beta1")
         [] k = "Dashboard/v2alpha1" -> DashboardKind("v2alpha1")
         [] k = "Dashboard/v2alpha2" -> DashboardKind("v2alpha2")]

\* The (kind, version) pairs that callers ask for: the four registered pairs,
\* an unknown version, a kind in the wrong case, a kind that holds the
\* separator, an unknown kind.
QueryPairs ==
    { <<"Dashboard", "v0alpha1">>, <<"Dashboard", "v1beta1">>,
      <<"Dashboard", "v2alpha1">>, <<"Dashboard", "v2alpha2">>,
      <<"Dashboard", "v3alpha1">>, <<"dashboard", "v1beta1">>,
      <<"Dashboard/v1beta1", "">>, <<"Playlist", "v0alpha1">> }

MaxResolveCalls == 2

\* A lookup that falls back to the storage version's kind for an unknown key.
LookupDefaulting(registry, kind, version) ==
    LET key == KeyOf(kind, version) IN
    IF key \in DOMAIN registry
    THEN [goType |-> registry[key], exists |-> TRUE]
    ELSE [goType |-> DashboardKind("v1beta1"), exists |-> TRUE]

\* goType, exists = kindVersionToGoType[key]
Lookup(registry, kind, version) ==
    LET key == KeyOf(kind, version) IN
    IF key \in DOMAIN registry
    THEN [goType |-> registry[key], exists |-> TRUE]
    ELSE [goType |-> ZeroKind, exists |-> FALSE]

Unresolved == [calls |-> 0]

\* A lookup that stores the zero value under a key it did not find.
ManifestGoTypeAssociatorStoring(kind, version) ==
    /\ resolved[<<kind, version>>].calls < MaxResolveCalls
    /\ LET r == Lookup(kindVersionToGoType, kind, version) IN
         /\ resolved' = [resolved EXCEPT ![<<kind, version>>] =
              [calls |-> @.calls + 1, goType |-> r.goType, exists |-> r.exists]]
         /\ kindVersionToGoType' =
              IF r.exists THEN kindVersionToGoType
              ELSE [k \in DOMAIN kindVersionToGoType \cup {KeyOf(kind, version)} |->
                      IF k \in DOMAIN kindVersionToGoType
                      THEN kindVersionToGoType[k] ELSE ZeroKind]
    /\ UNCHANGED <<storeVars, managerVars, serviceVars>>

\* ManifestGoTypeAssociator(kind, version): the lookup, and what it returned.
ManifestGoTypeAssociator(kind, version) ==
    /\ resolved[<<kind, version>>].calls < MaxResolveCalls
    /\ LET r == Lookup(kindVersionToGoType, kind, version) IN
         resolved' = [resolved EXCEPT ![<<kind, version>>] =
           [calls |-> @.calls + 1, goType |-> r.goType, exists |-> r.exists]]
    /\ UNCHANGED kindVersionToGoType
    /\ UNCHANGED <<storeVars, managerVars, serviceVars>>

InitRegistryVars ==
    /\ kindVersionToGoType = KindVersionToGoTypeLiteral
    /\ resolved = [p \in QueryPairs |-> Unresolved]

NextRegistry ==
    \E p \in QueryPairs : ManifestGoTypeAssociator(p[1], p[2])

(***************************************************************************)
(* 3. Unified dashboard scene page state manager                           *)
(***************************************************************************)
DASHBOARD_CACHE_TTL == 500
\* The clock advances in steps of half a TTL.
TickMs == DASHBOARD_CACHE_TTL \div 2

Managers == {"v1", "v2"}
Uids == {"a", "b"}
Calls == {"c1", "c2"}
Absent == "absent"
Objects == Managers \cup {"unified"}
\* undefined, as the value of a field of the page state or of a cache slot
Undefined == [undefined |-> TRUE]
\* options.params left out
NoParams == Undefined
\* LoadDashboardOptions['params']
Params(variables, scopes, version, from) ==
    [variables |-> variables, scopes |-> scopes, version |-> version,
     timeRange |-> [from |-> from, to |-> "now"]]
Null == [format |-> "null", uid |-> "", storedVersion |-> ""]
NoEntry == [cacheKey |-> "undefined"]
NotStarted == [type |-> "none"]

\* The versions a dashboard can be stored in, or no such dashboard.
StoredChoices == {ManifestVersions[i] : i \in 1..Len(ManifestVersions)} \cup {Absent}

\* The backends considered: dashboard "a" in any version or missing, dashboard
\* "b" in a version of either family.
Backends ==
    {f \in [Uids -> StoredChoices] : f["b"] \in {"v1beta1", "v2alpha1"}}

\* The API family that serves a stored version without a conversion error.
Family(version) == IF version \in {"v2alpha1", "v2alpha2"} THEN "v2" ELSE "v1"

\* LoadDashboardOptions of the calls: two saved dashboards on the normal route,
\* one of them also with params.
LoadOptions ==
    { [uid |-> "a", route |-> "Normal", params |-> NoParams],
      [uid |-> "b", route |-> "Normal", params |-> NoParams],
      [uid |-> "a", route |-> "Normal", params |-> Params("x=1", "s1", 1, "now-6h")] }

\* DashboardDTO (format v1) or DashboardWithAccessInfo<DashboardV2Spec> (v2):
\* revision is dashboard.version (v1) or metadata.generation (v2), 0 for a
\* dashboard that was never saved and 1 for one that was saved once.
Payload(m, uid, version) ==
    [format |-> m, uid |-> uid, storedVersion |-> version,
     revision |-> IF version = "unsaved" THEN 0 ELSE 1]

\* The response for the same dashboard after it has been saved again.
Saved(rsp, revision) == [rsp EXCEPT !.revision = revision]

Returned(v) == [type |-> "value", value |-> v]
Thrown(e) == [type |-> "throw", error |-> e]
DashboardVersionError(version) ==
    [name |-> "DashboardVersionError", storedVersion |-> version, cancelled |-> FALSE]
FetchError(name, cancelled) ==
    [name |-> name, storedVersion |-> "", cancelled |-> cancelled]

\* fetchResource(kind, version, identity, queryParams): what the loader of
\* manager m answers for a saved dashboard.
LoaderOutcomes(m, uid) ==
    {Thrown(FetchError("TransientError", FALSE)), Thrown(FetchError("Cancelled", TRUE))}
    \cup (IF stored[uid] = Absent THEN {Thrown(FetchError("NotFound", FALSE))}
          ELSE IF Family(stored[uid]) = m THEN {Returned(Payload(m, uid, stored[uid]))}
          ELSE {Thrown(DashboardVersionError(stored[uid]))})

\* What the backend side of fetchDashboard can answer, by route.
BackendOutcomes(m, o) ==
    IF o.route = "New"
    THEN {Returned(Payload(m, "", "unsaved")), Thrown(FetchError("TransientError", FALSE))}
    ELSE LoaderOutcomes(m, o.uid)

\* const cacheKey = route === DashboardRoutes.Home ? HOME_DASHBOARD_CACHE_KEY : uid
CacheKey(o) == IF o.route = "Home" THEN "__grafana_home_uid__" ELSE o.uid

\* A lookup that still returns an entry whose age is exactly the TTL.
getDashboardFromCacheInclusive(entry, cacheKey, t) ==
    IF /\ entry # NoEntry
       /\ entry.cacheKey = cacheKey
       /\ t - entry.ts <= DASHBOARD_CACHE_TTL
    THEN entry.dashboard
    ELSE Null

\* getDashboardFromCache(cacheKey) of one manager
getDashboardFromCache(entry, cacheKey, t) ==
    IF /\ entry # NoEntry
       /\ entry.cacheKey = cacheKey
       /\ t - entry.ts < DASHBOARD_CACHE_TTL
    THEN entry.dashboard
    ELSE Null

\* A start of fetchDashboard that looks into the cache whatever the params.
CachedResponseAnyParams(entry, o, t) == getDashboardFromCache(entry, CacheKey(o), t)

\* The start of manager.fetchDashboard(options): without params a cached
\* response is returned, otherwise the backend is asked.
CachedResponse(entry, o, t) ==
    IF o.params = NoParams THEN getDashboardFromCache(entry, CacheKey(o), t) ELSE Null

\* A cache write that replaces the payload and the timestamp of an existing
\* entry and leaves its key.
FetchSettledPartial(entry, o, outcome, t) ==
    IF outcome.type = "value"
    THEN [entry |-> IF entry = NoEntry
                    THEN [dashboard |-> outcome.value, ts |-> t, cacheKey |-> CacheKey(o)]
                    ELSE [entry EXCEPT !.dashboard = outcome.value, !.ts = t],
          result |-> outcome]
    ELSE IF outcome.error.cancelled
         THEN [entry |-> entry, result |-> Returned(Null)]
         ELSE [entry |-> entry, result |-> outcome]

\* A cache that keeps the entry of another key next to the new one.
FetchSettledKeepOther(entry, o, outcome, t) ==
    IF outcome.type = "value"
    THEN [entry |-> IF entry # NoEntry /\ entry.cacheKey # CacheKey(o)
                    THEN entry
                    ELSE [dashboard |-> outcome.value, ts |-> t, cacheKey |-> CacheKey(o)],
          result |-> outcome]
    ELSE IF outcome.error.cancelled
         THEN [entry |-> entry, result |-> Returned(Null)]
         ELSE [entry |-> entry, result |-> outcome]

\* The rest of manager.fetchDashboard(options) once the backend has answered:
\* the response is cached and returned, a cancelled request returns null, any
\* other error is rethrown. Public and provisioning responses are returned as
\* they are.
FetchSettled(entry, o, outcome, t) ==
    IF outcome.type = "value"
    THEN IF o.route \in {"Public", "Provisioning"}
         THEN [entry |-> entry, result |-> outcome]
         ELSE [entry |-> [dashboard |-> outcome.value, ts |-> t, cacheKey |-> CacheKey(o)],
               result |-> outcome]
    ELSE IF outcome.error.cancelled
         THEN [entry |-> entry, result |-> Returned(Null)]
         ELSE [entry |-> entry, result |-> outcome]

\* StateManagerBase.setState(update): the keys of update replace those of state.
SetState(old, update) ==
    [k \in DOMAIN old \cup DOMAIN update |->
       IF k \in DOMAIN update THEN update[k] ELSE old[k]]

\* The page state the managers are constructed with: {}.
InitialState == <<>>
Field(st, k) == IF k \in DOMAIN st THEN st[k] ELSE Undefined

\* rsp.dashboard.version (v1) or rsp.metadata.generation (v2): 0 for a dashboard
\* that was never saved, the saved revision otherwise.
VersionOf(rsp) == rsp.revision

\* transformSaveModelToScene(rsp) / transformSaveModelSchemaV2ToScene(rsp)
Scene(rsp) == [uid |-> rsp.uid, format |-> rsp.format, version |-> VersionOf(rsp)]

\* The keys of the scene caches: options.uid, empty for an unsaved dashboard.
SceneKeys == Uids \cup {""}
NoScenes == [k \in SceneKeys |-> Undefined]
\* getSceneFromCache(cacheKey) on the scene cache "scenes" of one manager
getSceneFromCache(scenes, cacheKey) == scenes[cacheKey]
\* setSceneCache(cacheKey, scene)
setSceneCache(scenes, cacheKey, scene) == [scenes EXCEPT ![cacheKey] = scene]

\* A transformation that returns whatever scene is cached for the uid.
transformResponseToSceneAnyCached(scenes, rsp, options) ==
    LET fromCache == getSceneFromCache(scenes, options.uid) IN
    IF fromCache # Undefined
    THEN [cache |-> scenes, scene |-> fromCache]
    ELSE [cache |-> IF options.uid # ""
                    THEN setSceneCache(scenes, options.uid, Scene(rsp))
                    ELSE scenes,
          scene |-> Scene(rsp)]

\* transformResponseToScene(rsp, options) of the v1 and of the v2 manager, for
\* a response that is not null: the cached scene of the same version, or a new
\* scene, which is cached unless options.uid is empty.
transformResponseToScene(scenes, rsp, options) ==
    LET fromCache == getSceneFromCache(scenes, options.uid) IN
    IF fromCache # Undefined /\ fromCache.version = VersionOf(rsp)
    THEN [cache |-> scenes, scene |-> fromCache]
    ELSE [cache |-> IF options.uid # ""
                    THEN setSceneCache(scenes, options.uid, Scene(rsp))
                    ELSE scenes,
          scene |-> Scene(rsp)]

\* isDashboardV2Resource(rsp)
isDashboardV2Resource(rsp) == rsp.format = "v2"

\* error instanceof DashboardVersionError
IsVersionError(result) ==
    result.type = "throw" /\ result.error.name = "DashboardVersionError"

\* const manager = error.data.storedVersion === 'v2alpha1' ? this.v2Manager : this.v1Manager
FallbackManager(error) == IF error.storedVersion = "v2alpha1" THEN "v2" ELSE "v1"

\* A catch block that retries after any error.
WvhNextRetryAny(call, settled) ==
    IF settled.type = "value" THEN "Resolved"
    ELSE IF call.pc = "FetchingPreferred" THEN "FetchingFallback" ELSE "Failed"

\* A catch block that also handles the version error of the retry.
WvhNextLoop(call, settled) ==
    IF settled.type = "value" THEN "Resolved"
    ELSE IF IsVersionError(settled) THEN "FetchingFallback" ELSE "Failed"

\* A retry whose version error is swallowed.
WvhNextSwallow(call, settled) ==
    IF settled.type = "value" THEN "Resolved"
    ELSE IF call.pc = "FetchingPreferred"
         THEN IF IsVersionError(settled) THEN "FetchingFallback" ELSE "Failed"
         ELSE IF IsVersionError(settled) THEN "Resolved" ELSE "Failed"

\* A catch block that rethrows the version error instead of retrying.
WvhNextNoRetry(call, settled) ==
    IF settled.type = "value" THEN "Resolved" ELSE "Failed"

\* A catch block that also retries after a NotFound error.
WvhNextRetryNotFound(call, settled) ==
    IF settled.type = "value" THEN "Resolved"
    ELSE IF call.pc = "FetchingPreferred"
            /\ (IsVersionError(settled) \/ settled.error.name = "NotFound")
         THEN "FetchingFallback"
         ELSE "Failed"

\* withVersionHandling: where the call is after an attempt has settled. Only
\* the await in the try block is guarded by the catch block.
WvhNext(call, settled) ==
    IF settled.type = "value" THEN "Resolved"
    ELSE IF call.pc = "FetchingPreferred" /\ IsVersionError(settled)
         THEN "FetchingFallback"
         ELSE "Failed"

\* operation(manager): manager.fetchDashboard(options) runs up to its first await.
Invoke(call, m, o, entry, t) ==
    [call EXCEPT !.mgr = m, !.options = o, !.attempts = @ + 1,
                 !.held = CachedResponse(entry, o, t),
                 !.requests = IF CachedResponse(entry, o, t) = Null THEN @ + 1 ELSE @]

NoCall == "none"
NoRead == [method |-> "none"]

IdleCall ==
    [pc |-> "Idle", op |-> "fetchDashboard",
     options |-> CHOOSE o \in LoadOptions : o.uid = "a" /\ o.params = NoParams,
     preferred |-> "v1", mgr |-> "v1", attempts |-> 0, requests |-> 0, held |-> Null,
     settled |-> NotStarted, result |-> NotStarted]

\* fetchDashboard(options) on the unified manager: withVersionHandling calls
\* operation(this.activeManager).
StartFetch(c, o) ==
    /\ calls[c].pc \in {"Idle", "Resolved", "Failed"}
    /\ calls' = [calls EXCEPT ![c] =
         Invoke([IdleCall EXCEPT !.pc = "FetchingPreferred", !.preferred = activeManager],
                activeManager, o, dashboardCache[activeManager], now)]
    /\ UNCHANGED <<stored, now, activeManager, dashboardCache, cache, state,
                   lastIssued, read>>
    /\ UNCHANGED <<storeVars, registryVars, serviceVars>>

\* loadDashboard(options) on the unified manager: loadScene marks the page as
\* loading and calls this.fetchDashboard(options).
StartLoad(c, o) ==
    /\ calls[c].pc \in {"Idle", "Resolved", "Failed"}
    /\ state' = [state EXCEPT !["unified"] =
                   SetState(@, [dashboard |-> Undefined, isLoading |-> TRUE])]
    /\ calls' = [calls EXCEPT ![c] =
         Invoke([IdleCall EXCEPT !.pc = "FetchingPreferred", !.op = "loadDashboard",
                                 !.preferred = activeManager],
                activeManager, o, dashboardCache[activeManager], now)]
    /\ lastIssued' = c
    /\ UNCHANGED <<stored, now, activeManager, dashboardCache, cache, read>>
    /\ UNCHANGED <<storeVars, registryVars, serviceVars>>

\* options.params?.variables and options.params?.scopes
VariablesOf(params) == IF params = NoParams THEN "undefined" ELSE params.variables
ScopesOf(params) == IF params = NoParams THEN "undefined" ELSE params.scopes

\* The start of reloadDashboard(params) of the v1 manager with page state st:
\* nothing to do without the options of a load, or when variables and scopes
\* are those of that load.
ReloadReturnsEarly(st, params) ==
    \/ Field(st, "options") = Undefined
    \/ /\ VariablesOf(params) = VariablesOf(Field(st, "options").params)
       /\ ScopesOf(params) = ScopesOf(Field(st, "options").params)

\* reloadDashboard(params) on the unified manager: withVersionHandling calls
\* this.activeManager.reloadDashboard(params). The v2 manager throws 'Method
\* not implemented.'; the v1 manager returns early or fetches with the options
\* of its page state.
StartReload(c, params) ==
    LET m == activeManager
        started == [IdleCall EXCEPT !.op = "reloadDashboard", !.preferred = m, !.mgr = m]
        error == Thrown(FetchError("Method not implemented.", FALSE))
    IN  /\ calls[c].pc \in {"Idle", "Resolved", "Failed"}
        /\ IF m = "v2"
           THEN /\ calls' = [calls EXCEPT ![c] =
                     [started EXCEPT !.pc = "Failed", !.attempts = 1,
                                     !.settled = error, !.result = error]]
                /\ state' = state
           ELSE IF ReloadReturnsEarly(state[m], params)
           THEN /\ calls' = [calls EXCEPT ![c] =
                     [started EXCEPT !.pc = "Resolved", !.attempts = 1,
                                     !.settled = Returned(Null),
                                     !.result = Returned(Null)]]
                /\ state' = [state EXCEPT !["unified"] = SetState(@, state[m])]
           ELSE /\ calls' = [calls EXCEPT ![c] =
                     Invoke([started EXCEPT !.pc = "FetchingPreferred"], m,
                            [state[m].options EXCEPT !.params = params],
                            dashboardCache[m], now)]
                /\ state' = [state EXCEPT ![m] = SetState(@, [isLoading |-> TRUE])]
        /\ UNCHANGED <<stored, now, activeManager, dashboardCache, cache, lastIssued, read>>
        /\ UNCHANGED <<storeVars, registryVars, serviceVars>>

\* loadSnapshot(slug) on the unified manager: withVersionHandling calls
\* this.activeManager.loadSnapshot(slug), which asks the loader for the snapshot.
StartSnapshot(c, slug) ==
    /\ calls[c].pc \in {"Idle", "Resolved", "Failed"}
    /\ calls' = [calls EXCEPT ![c] =
         [IdleCall EXCEPT !.pc = "FetchingPreferred", !.op = "loadSnapshot",
                          !.preferred = activeManager, !.mgr = activeManager,
                          !.options = [uid |-> slug, route |-> "Snapshot",
                                       params |-> NoParams],
                          !.attempts = 1, !.requests = 1]]
    /\ UNCHANGED <<stored, now, activeManager, dashboardCache, cache, state,
                   lastIssued, read>>
    /\ UNCHANGED <<storeVars, registryVars, serviceVars>>

\* loadDashboard(options) called on the v1 or the v2 manager itself: loadScene
\* marks the page of that manager as loading and calls its fetchDashboard.
StartLoadOn(c, m, o) ==
    /\ calls[c].pc \in {"Idle", "Resolved", "Failed"}
    /\ state' = [state EXCEPT ![m] =
                   SetState(@, [dashboard |-> Undefined, isLoading |-> TRUE])]
    /\ calls' = [calls EXCEPT ![c] =
         Invoke([IdleCall EXCEPT !.pc = "Fetching", !.op = "loadDashboard",
                                 !.preferred = m],
                m, o, dashboardCache[m], now)]
    /\ UNCHANGED <<stored, now, activeManager, dashboardCache, cache, lastIssued, read>>
    /\ UNCHANGED <<storeVars, registryVars, serviceVars>>

\* reloadDashboard(params) called on the v1 or the v2 manager itself.
StartReloadOn(c, m, params) ==
    LET started == [IdleCall EXCEPT !.op = "reloadDashboard", !.preferred = m, !.mgr = m,
                                    !.options.params = params]
        error == Thrown(FetchError("Method not implemented.", FALSE))
    IN  /\ calls[c].pc \in {"Idle", "Resolved", "Failed"}
        /\ IF m = "v2"
           THEN /\ calls' = [calls EXCEPT ![c] =
                     [started EXCEPT !.pc = "Failed", !.attempts = 1,
                                     !.settled = error, !.result = error]]
                /\ state' = state
           ELSE IF ReloadReturnsEarly(state[m], params)
           THEN /\ calls' = [calls EXCEPT ![c] =
                     [started EXCEPT !.pc = "Resolved", !.attempts = 1,
                                     !.settled = Returned(Null),
                                     !.result = Returned(Null)]]
                /\ state' = state
           ELSE /\ calls' = [calls EXCEPT ![c] =
                     Invoke([started EXCEPT !.pc = "Fetching"], m,
                            [state[m].options EXCEPT !.params = params],
                            dashboardCache[m], now)]
                /\ state' = [state EXCEPT ![m] = SetState(@, [isLoading |-> TRUE])]
        /\ UNCHANGED <<stored, now, activeManager, dashboardCache, cache, lastIssued, read>>
        /\ UNCHANGED <<storeVars, registryVars, serviceVars>>

\* loadSnapshot(slug) called on the v1 or the v2 manager itself.
StartSnapshotOn(c, m, slug) ==
    /\ calls[c].pc \in {"Idle", "Resolved", "Failed"}
    /\ calls' = [calls EXCEPT ![c] =
         [IdleCall EXCEPT !.pc = "Fetching", !.op = "loadSnapshot",
                          !.preferred = m, !.mgr = m,
                          !.options = [uid |-> slug, route |-> "Snapshot",
                                       params |-> NoParams],
                          !.attempts = 1, !.requests = 1]]
    /\ UNCHANGED <<stored, now, activeManager, dashboardCache, cache, state,
                   lastIssued, read>>
    /\ UNCHANGED <<storeVars, registryVars, serviceVars>>

\* A clear that forgets the v2 manager.
ClearDashboardCacheV1Only ==
    /\ dashboardCache' = [dashboardCache EXCEPT !["v1"] = NoEntry]
    /\ UNCHANGED <<stored, now, activeManager, cache, state, calls, lastIssued, read>>
    /\ UNCHANGED <<storeVars, registryVars, serviceVars>>

\* clearDashboardCache() on the unified manager
ClearDashboardCache ==
    /\ dashboardCache' = [dashboardCache EXCEPT !["v1"] = NoEntry, !["v2"] = NoEntry]
    /\ UNCHANGED <<stored, now, activeManager, cache, state, calls, lastIssued, read>>
    /\ UNCHANGED <<storeVars, registryVars, serviceVars>>

\* clearSceneCache() on the unified manager
ClearSceneCache ==
    /\ cache' = [cache EXCEPT !["v1"] = NoScenes, !["v2"] = NoScenes,
                              !["unified"] = NoScenes]
    /\ UNCHANGED <<stored, now, activeManager, dashboardCache, state, calls,
                   lastIssued, read>>
    /\ UNCHANGED <<storeVars, registryVars, serviceVars>>

\* setSceneCache(cacheKey, scene) on the unified manager writes its own cache.
SetSceneCache(cacheKey, scene) ==
    /\ cache' = [cache EXCEPT !["unified"] = setSceneCache(@, cacheKey, scene)]
    /\ UNCHANGED <<stored, now, activeManager, dashboardCache, state, calls,
                   lastIssued, read>>
    /\ UNCHANGED <<storeVars, registryVars, serviceVars>>

\* setDashboardCache(cacheKey, dashboard) on the unified manager: the entry is
\* written to the v2 manager for a v2 resource, to the v1 manager otherwise.
SetDashboardCache(cacheKey, dashboard) ==
    LET m == IF isDashboardV2Resource(dashboard) THEN "v2" ELSE "v1" IN
    /\ dashboardCache' = [dashboardCache EXCEPT ![m] =
                            [dashboard |-> dashboard, ts |-> now, cacheKey |-> cacheKey]]
    /\ read' = [method |-> "setDashboardCache", key |-> cacheKey, value |-> dashboard]
    /\ UNCHANGED <<stored, now, activeManager, cache, state, calls, lastIssued>>
    /\ UNCHANGED <<storeVars, registryVars, serviceVars>>

\* A read that drops the entry it finds expired.
GetDashboardFromCacheEvicting(uid) ==
    /\ read' = [method |-> "getDashboardFromCache", key |-> uid,
                value |-> getDashboardFromCache(dashboardCache[activeManager], uid, now)]
    /\ dashboardCache' =
         IF getDashboardFromCache(dashboardCache[activeManager], uid, now) = Null
         THEN [dashboardCache EXCEPT ![activeManager] = NoEntry]
         ELSE dashboardCache
    /\ UNCHANGED <<stored, now, activeManager, cache, state, calls, lastIssued>>
    /\ UNCHANGED <<storeVars, registryVars, serviceVars>>

\* getDashboardFromCache(uid) on the unified manager reads the active manager's
\* entry.
GetDashboardFromCache(uid) ==
    /\ read' = [method |-> "getDashboardFromCache", key |-> uid,
                value |-> getDashboardFromCache(dashboardCache[activeManager], uid, now)]
    /\ UNCHANGED <<stored, now, activeManager, dashboardCache, cache, state, calls,
                   lastIssued>>
    /\ UNCHANGED <<storeVars, registryVars, serviceVars>>

\* getSceneFromCache(cacheKey) on the unified manager reads its own cache.
GetSceneFromCache(cacheKey) ==
    /\ read' = [method |-> "getSceneFromCache", key |-> cacheKey,
                value |-> getSceneFromCache(cache["unified"], cacheKey)]
    /\ UNCHANGED <<stored, now, activeManager, dashboardCache, cache, state, calls,
                   lastIssued>>
    /\ UNCHANGED <<storeVars, registryVars, serviceVars>>

\* getCache() on the unified manager returns the active manager's scene cache.
GetCache ==
    /\ read' = [method |-> "getCache", key |-> "", value |-> cache[activeManager]]
    /\ UNCHANGED <<stored, now, activeManager, dashboardCache, cache, state, calls,
                   lastIssued>>
    /\ UNCHANGED <<storeVars, registryVars, serviceVars>>

\* loadSnapshot(slug) of the loader of manager m: snapshots are stored under
\* the identities of the backend, in a version of one of the families.
SnapshotOutcomes(m, slug) ==
    {Thrown(FetchError("TransientError", FALSE))}
    \cup (IF stored[slug] = Absent THEN {Returned(Null)}
          ELSE IF Family(stored[slug]) = m THEN {Returned(Payload(m, slug, stored[slug]))}
          ELSE {Thrown(DashboardVersionError(stored[slug]))})

\* How the attempt in flight of call c can settle.
AttemptOutcomes(c) ==
    IF calls[c].op \in {"loadSnapshot", "loadSnapshotScene"}
    THEN SnapshotOutcomes(calls[c].mgr, calls[c].options.uid)
    ELSE IF calls[c].held # Null THEN {Returned(calls[c].held)}
    ELSE BackendOutcomes(calls[c].mgr, calls[c].options)

\* loadSnapshotScene(slug) of the v1 and of the v2 manager once the loader has
\* answered: the scene of the response, or the error 'Snapshot not found'.
loadSnapshotScene(outcome) ==
    IF outcome.type = "throw" THEN outcome
    ELSE IF outcome.value # Null THEN Returned(Scene(outcome.value))
    ELSE Thrown(FetchError("Snapshot not found", FALSE))

\* loadSnapshot(slug) of a manager with page state st after loadSnapshotScene
\* has settled.
SnapshotSettled(st, outcome) ==
    LET loaded == loadSnapshotScene(outcome) IN
    IF loaded.type = "value"
    THEN SetState(st, [dashboard |-> loaded.value, isLoading |-> FALSE])
    ELSE SetState(st, [isLoading |-> FALSE,
                       loadError |-> [status |-> loaded.error.name,
                                      message |-> loaded.error.name,
                                      messageId |-> loaded.error.name]])

\* reloadDashboard(params) of the v1 manager after fetchDashboard(options) has
\* settled: st and scenes are the page state and the scene cache of that manager.
ReloadSettled(st, scenes, options, fetched) ==
    IF fetched.type = "throw"
    THEN [state |-> SetState(st, [isLoading |-> FALSE,
                                  loadError |-> [message |-> fetched.error.name,
                                                 status |-> fetched.error.name]]),
          cache |-> scenes]
    ELSE LET rsp == fetched.value
             fromCache == getSceneFromCache(scenes, options.uid)
         IN  IF rsp # Null /\ fromCache # Undefined /\ fromCache.version = VersionOf(rsp)
             THEN [state |-> SetState(st, [isLoading |-> FALSE]), cache |-> scenes]
             ELSE IF rsp = Null
             THEN [state |-> SetState(st, [isLoading |-> FALSE,
                                           loadError |-> [status |-> "404",
                                                          message |-> "Dashboard not found"]]),
                   cache |-> scenes]
             ELSE [state |-> SetState(st, [dashboard |-> Scene(rsp), isLoading |-> FALSE,
                                           options |-> options]),
                   cache |-> setSceneCache(scenes, options.uid, Scene(rsp))]

\* transformResponseToScene(rsp, options) of the unified manager: a v2 resource
\* makes the v2 manager the active one and is transformed by it, any other
\* response is transformed by the v1 manager.
UnifiedTransform(scenes, active, rsp, options) ==
    LET m == IF isDashboardV2Resource(rsp) THEN "v2" ELSE "v1"
        t == transformResponseToScene(scenes[m], rsp, options)
    IN  [cache |-> [scenes EXCEPT ![m] = t.cache],
         scene |-> t.scene,
         activeManager |-> IF isDashboardV2Resource(rsp) THEN "v2" ELSE active]

\* transformResponseToScene(rsp, options) called on a manager: on the v1 or the
\* v2 manager with a response of its format, on the unified manager with any.
TransformResponseToScene(target, rsp, options) ==
    LET t == IF target = "unified"
             THEN UnifiedTransform(cache, activeManager, rsp, options)
             ELSE [cache |-> [cache EXCEPT ![target] =
                                transformResponseToScene(@, rsp, options).cache],
                   scene |-> transformResponseToScene(cache[target], rsp, options).scene,
                   activeManager |-> activeManager]
    IN  /\ target \in Managers => rsp.format = target
        /\ cache' = t.cache
        /\ activeManager' = t.activeManager
        /\ read' = [method |-> "transformResponseToScene", manager |-> rsp.format,
                    rsp |-> rsp, options |-> options,
                    fromCache |-> getSceneFromCache(cache[rsp.format], options.uid),
                    value |-> t.scene]
        /\ UNCHANGED <<stored, now, dashboardCache, state, calls, lastIssued>>
        /\ UNCHANGED <<storeVars, registryVars, serviceVars>>

\* loadDashboard(options) of the unified manager after this.fetchDashboard has
\* settled: a thrown error becomes the loadError, null ends the load, a
\* response is transformed and becomes the dashboard of the page state.
LoadSettled(st, scenes, active, options, result) ==
    IF result.type = "throw"
    THEN [state |-> SetState(st, [isLoading |-> FALSE,
                                  loadError |-> [status |-> result.error.name,
                                                 message |-> result.error.name,
                                                 messageId |-> result.error.name]]),
          cache |-> scenes, activeManager |-> active]
    ELSE IF result.value = Null
    THEN [state |-> st, cache |-> scenes, activeManager |-> active]
    ELSE LET t == UnifiedTransform(scenes, active, result.value, options) IN
         [state |-> SetState(st, [dashboard |-> t.scene, isLoading |-> FALSE,
                                  options |-> options]),
          cache |-> t.cache, activeManager |-> t.activeManager]

\* An attempt settles (from the cache, or with the backend's answer), the
\* operation on the manager finishes, and withVersionHandling continues: it
\* returns the result after copying the active manager's state, or switches
\* the active manager and retries, or rethrows. A loadDashboard then goes on
\* with the result.
SettleAttempt(c, outcome) ==
    LET call == calls[c]
        m == call.mgr
        o == call.options
        fetched == IF call.op = "loadSnapshot"
                   THEN [entry |-> dashboardCache[m], result |-> outcome]
                   ELSE IF call.held # Null
                   THEN [entry |-> dashboardCache[m], result |-> Returned(call.held)]
                   ELSE FetchSettled(dashboardCache[m], o, outcome, now)
        reloaded == IF call.op = "reloadDashboard"
                    THEN ReloadSettled(state[m], cache[m], o, fetched.result)
                    ELSE IF call.op = "loadSnapshot"
                    THEN [state |-> SnapshotSettled(state[m], outcome), cache |-> cache[m]]
                    ELSE [state |-> state[m], cache |-> cache[m]]
        settled == IF call.op \in {"reloadDashboard", "loadSnapshot"}
                   THEN Returned(Null) ELSE fetched.result
        cache1 == [dashboardCache EXCEPT ![m] = fetched.entry]
        scenes1 == [cache EXCEPT ![m] = reloaded.cache]
        state1 == [state EXCEPT ![m] = reloaded.state]
        next == WvhNext(call, settled)
    IN  /\ call.pc \in {"FetchingPreferred", "FetchingFallback"}
        /\ outcome \in AttemptOutcomes(c)
        /\ dashboardCache' = cache1
        /\ IF next = "FetchingFallback"
           THEN LET manager == FallbackManager(settled.error) IN
                /\ activeManager' = manager
                /\ calls' = [calls EXCEPT ![c] =
                     Invoke([call EXCEPT !.pc = "FetchingFallback", !.settled = settled],
                            manager, o, cache1[manager], now)]
                /\ state' = state1
                /\ cache' = scenes1
           ELSE LET result == IF next = "Resolved" /\ settled.type = "throw"
                              THEN Returned(Null) ELSE settled
                    synced == IF call.pc = "FetchingPreferred" /\ next = "Resolved"
                              THEN [state1 EXCEPT !["unified"] =
                                      SetState(@, state1[activeManager])]
                              ELSE state1
                    loaded == IF call.op = "loadDashboard"
                              THEN LoadSettled(synced["unified"], scenes1, activeManager,
                                               o, result)
                              ELSE [state |-> synced["unified"], cache |-> scenes1,
                                    activeManager |-> activeManager]
                IN  /\ activeManager' = loaded.activeManager
                    /\ calls' = [calls EXCEPT ![c] =
                         [call EXCEPT !.pc = next, !.held = Null, !.settled = settled,
                                      !.result = result]]
                    /\ state' = [synced EXCEPT !["unified"] = loaded.state]
                    /\ cache' = loaded.cache
        /\ UNCHANGED <<stored, now, lastIssued, read>>
        /\ UNCHANGED <<storeVars, registryVars, serviceVars>>

\* loadDashboard(options) of the v1 or the v2 manager after its fetchDashboard
\* has settled: st and scenes are the page state and the scene cache of that
\* manager.
LoadSettledOn(st, scenes, options, result) ==
    IF result.type = "throw"
    THEN [state |-> SetState(st, [isLoading |-> FALSE,
                                  loadError |-> [status |-> result.error.name,
                                                 message |-> result.error.name,
                                                 messageId |-> result.error.name]]),
          cache |-> scenes]
    ELSE IF result.value = Null
    THEN [state |-> st, cache |-> scenes]
    ELSE LET t == transformResponseToScene(scenes, result.value, options) IN
         [state |-> SetState(st, [dashboard |-> t.scene, isLoading |-> FALSE,
                                  options |-> options]),
          cache |-> t.cache]

\* The request of an operation called on the v1 or the v2 manager itself
\* settles and the operation runs to its end: settled is what fetchDashboard
\* (or the snapshot loader) returned or threw.
SettleDirect(c, outcome) ==
    LET call == calls[c]
        m == call.mgr
        o == call.options
        fetched == IF call.op = "loadSnapshot"
                   THEN [entry |-> dashboardCache[m], result |-> loadSnapshotScene(outcome)]
                   ELSE IF call.held # Null
                   THEN [entry |-> dashboardCache[m], result |-> Returned(call.held)]
                   ELSE FetchSettled(dashboardCache[m], o, outcome, now)
        done == IF call.op = "reloadDashboard"
                THEN ReloadSettled(state[m], cache[m], o, fetched.result)
                ELSE IF call.op = "loadSnapshot"
                THEN [state |-> SnapshotSettled(state[m], outcome), cache |-> cache[m]]
                ELSE LoadSettledOn(state[m], cache[m], o, fetched.result)
    IN  /\ call.pc = "Fetching"
        /\ outcome \in AttemptOutcomes(c)
        /\ dashboardCache' = [dashboardCache EXCEPT ![m] = fetched.entry]
        /\ state' = [state EXCEPT ![m] = done.state]
        /\ cache' = [cache EXCEPT ![m] = done.cache]
        /\ calls' = [calls EXCEPT ![c] =
             [call EXCEPT !.pc = IF fetched.result.type = "throw"
                                 THEN "Failed" ELSE "Resolved",
                          !.held = Null, !.settled = fetched.result,
                          !.result = fetched.result]]
        /\ UNCHANGED <<stored, now, activeManager, lastIssued, read>>
        /\ UNCHANGED <<storeVars, registryVars, serviceVars>>

\* A catch block that turns to the v2 manager after any version error.
UnifiedSnapshotNextAnyVersion(result) ==
    IF result.type = "value" THEN "Resolved"
    ELSE IF IsVersionError(result) THEN "SnapshotV2" ELSE "Failed"

\* loadSnapshotScene(slug) of the unified manager after the attempt on the v1
\* manager has settled: its scene is returned, a version error that names
\* v2alpha1 leads to the v2 manager, any other error to 'Snapshot not found'.
UnifiedSnapshotNext(result) ==
    IF result.type = "value" THEN "Resolved"
    ELSE IF IsVersionError(result) /\ result.error.storedVersion = "v2alpha1"
         THEN "SnapshotV2"
         ELSE "Failed"

\* loadSnapshotScene(slug) on the unified manager: the v1 manager is asked.
StartSnapshotScene(c, slug) ==
    /\ calls[c].pc \in {"Idle", "Resolved", "Failed"}
    /\ calls' = [calls EXCEPT ![c] =
         [IdleCall EXCEPT !.pc = "SnapshotV1", !.op = "loadSnapshotScene",
                          !.preferred = "v1", !.mgr = "v1",
                          !.options = [uid |-> slug, route |-> "Snapshot",
                                       params |-> NoParams],
                          !.attempts = 1, !.requests = 1]]
    /\ UNCHANGED <<stored, now, activeManager, dashboardCache, cache, state,
                   lastIssued, read>>
    /\ UNCHANGED <<storeVars, registryVars, serviceVars>>

\* The snapshot loader of the manager asked answers, and loadSnapshotScene of
\* the unified manager continues: settled is what the attempt on the v1
\* manager returned or threw.
SettleSnapshotScene(c, outcome) ==
    LET call == calls[c]
        attempt == loadSnapshotScene(outcome)
    IN  /\ call.pc \in {"SnapshotV1", "SnapshotV2"}
        /\ outcome \in AttemptOutcomes(c)
        /\ calls' = [calls EXCEPT ![c] =
             IF call.pc = "SnapshotV2"
             THEN [call EXCEPT !.pc = IF attempt.type = "value"
                                      THEN "Resolved" ELSE "Failed",
                               !.result = attempt]
             ELSE IF UnifiedSnapshotNext(attempt) = "SnapshotV2"
             THEN [call EXCEPT !.pc = "SnapshotV2", !.mgr = "v2", !.settled = attempt,
                               !.attempts = @ + 1, !.requests = @ + 1]
             ELSE IF UnifiedSnapshotNext(attempt) = "Resolved"
             THEN [call EXCEPT !.pc = "Resolved", !.settled = attempt,
                               !.result = attempt]
             ELSE [call EXCEPT !.pc = "Failed", !.settled = attempt,
                               !.result = Thrown(FetchError("Snapshot not found", FALSE))]]
        /\ UNCHANGED <<stored, now, activeManager, dashboardCache, cache, state,
                       lastIssued, read>>
        /\ UNCHANGED <<storeVars, registryVars, serviceVars>>

\* Time passes.
Tick ==
    /\ now + TickMs <= MaxTicks * TickMs
    /\ now' = now + TickMs
    /\ UNCHANGED <<stored, activeManager, dashboardCache, cache, state, calls,
                   lastIssued, read>>
    /\ UNCHANGED <<storeVars, registryVars, serviceVars>>

\* The constructor: this.activeManager = this.v1Manager, empty caches and states.
InitManagerVars ==
    /\ now = 0
    /\ activeManager = "v1"
    /\ dashboardCache = [m \in Objects |-> NoEntry]
    /\ cache = [m \in Objects |-> NoScenes]
    /\ state = [m \in Objects |-> InitialState]
    /\ calls = [c \in Calls |-> IdleCall]
    /\ lastIssued = NoCall
    /\ read = NoRead

NextManager ==
    \/ \E c \in Calls, o \in LoadOptions : StartFetch(c, o)
    \/ \E c \in Calls : \E outcome \in AttemptOutcomes(c) : SettleAttempt(c, outcome)
    \/ Tick

(***************************************************************************)
(* The AWS credential cache of the CloudWatch API (cloudwatch.go).          *)
(* GetCredentials runs on any number of request goroutines; the map         *)
(* awsCredentialCache is guarded by the RWMutex credentialCacheLock. A call *)
(* takes the read lock, looks its key up and returns the cached credential  *)
(* when the entry has not expired; otherwise it releases the read lock,     *)
(* builds a credential outside any lock, and stores it under the write      *)
(* lock. The clock counts periods of five minutes.                          *)
(***************************************************************************)
MaxBuilds == 2

Goroutines == {"g1", "g2"}

FiveMinutes == 1

\* nil *time.Time is the empty set, a set time is a singleton
NoExpiration == {}

DatasourceInfos ==
    { [AuthType |-> "keys", AccessKey |-> "AK", Profile |-> "", AssumeRoleArn |-> ""],
      [AuthType |-> "arn", AccessKey |-> "", Profile |-> "p",
       AssumeRoleArn |-> "arn:aws:iam:role"] }

NoDatasource == [AuthType |-> "", AccessKey |-> "", Profile |-> "", AssumeRoleArn |-> ""]

CacheKeyOf(dsInfo) == dsInfo.AccessKey \o ":" \o dsInfo.Profile \o ":" \o dsInfo.AssumeRoleArn

HasPrefix(s, prefix) == Len(prefix) <= Len(s) /\ SubSeq(s, 1, Len(prefix)) = prefix

AssumesRole(dsInfo) == dsInfo.AuthType = "arn" /\ HasPrefix(dsInfo.AssumeRoleArn, "arn:aws:iam:")

NotExpiredInclusive(entry, t) == entry.expiration # NoExpiration /\ \A e \in entry.expiration : e >= t

\* expiration != nil && expiration.After(time.Now().UTC())
NotExpired(entry, t) == entry.expiration # NoExpiration /\ \A e \in entry.expiration : e > t

Cached(key) == key \in DOMAIN awsCredentialCache /\ NotExpired(awsCredentialCache[key], utc)

\* what the lookup under the read lock found
Found(key) ==
    IF key \notin DOMAIN awsCredentialCache THEN "absent"
    ELSE IF Cached(key) THEN "fresh" ELSE "expired"

\* the outcomes of building a credential: a session or AssumeRole error, or a
\* credential with the expiration STS returned (none when the response has no
\* Credentials, else one that has passed already or one still to come), or
\* with now + 5 minutes when no role is assumed
BuildOutcomes(dsInfo) ==
    IF AssumesRole(dsInfo)
    THEN {[err |-> "NewSession", expiration |-> NoExpiration],
          [err |-> "AssumeRole", expiration |-> NoExpiration],
          [err |-> "", expiration |-> NoExpiration]}
         \cup {[err |-> "", expiration |-> {e}] : e \in {utc, utc + FiveMinutes}}
    ELSE {[err |-> "NewSession", expiration |-> NoExpiration],
          [err |-> "", expiration |-> {utc + FiveMinutes}]}

IdleGetter ==
    [pc |-> "Idle", dsInfo |-> NoDatasource, cacheKey |-> "", found |-> "",
     credential |-> 0, expiration |-> NoExpiration, result |-> 0, err |-> ""]

Unlocked == [readers |-> {}, writer |-> {}]

\* GetCredentials up to credentialCacheLock.RLock()
GetCredentials(g, dsInfo) ==
    /\ getters[g].pc \in {"Idle", "Returned", "Failed"}
    /\ credentialCacheLock.writer = {}
    /\ credentialCacheLock' = [credentialCacheLock EXCEPT !.readers = @ \cup {g}]
    /\ getters' = [getters EXCEPT ![g] =
           [IdleGetter EXCEPT !.pc = "RLocked", !.dsInfo = dsInfo,
                              !.cacheKey = CacheKeyOf(dsInfo)]]
    /\ UNCHANGED <<awsCredentialCache, utc, builds>>
    /\ UNCHANGED <<storeVars, registryVars, managerVars, updateVars>>

\* the lookup under the read lock, and RUnlock on either branch
ReadCache(g) ==
    /\ getters[g].pc = "RLocked"
    /\ LET key == getters[g].cacheKey
       IN getters' = [getters EXCEPT ![g] =
              IF Cached(key)
              THEN [@ EXCEPT !.pc = "Returned", !.found = "fresh",
                             !.result = awsCredentialCache[key].credential]
              ELSE [@ EXCEPT !.pc = "Building", !.found = Found(key)]]
    /\ credentialCacheLock' = [credentialCacheLock EXCEPT !.readers = @ \ {g}]
    /\ UNCHANGED <<awsCredentialCache, utc, builds>>
    /\ UNCHANGED <<storeVars, registryVars, managerVars, updateVars>>

\* the sessions, AssumeRole and the credential chain, outside any lock
BuildCredentials(g, outcome) ==
    /\ getters[g].pc = "Building"
    /\ IF outcome.err # ""
       THEN /\ getters' = [getters EXCEPT ![g] =
                   [@ EXCEPT !.pc = "Failed", !.err = outcome.err]]
            /\ UNCHANGED builds
       ELSE /\ builds < MaxBuilds
            /\ builds' = builds + 1
            /\ getters' = [getters EXCEPT ![g] =
                   [@ EXCEPT !.pc = "Built", !.credential = builds + 1,
                             !.expiration = outcome.expiration]]
    /\ UNCHANGED <<awsCredentialCache, credentialCacheLock, utc>>
    /\ UNCHANGED <<storeVars, registryVars, managerVars, updateVars>>

\* credentialCacheLock.Lock()
LockCache(g) ==
    /\ getters[g].pc = "Built"
    /\ credentialCacheLock = Unlocked
    /\ credentialCacheLock' = [credentialCacheLock EXCEPT !.writer = {g}]
    /\ getters' = [getters EXCEPT ![g].pc = "Locked"]
    /\ UNCHANGED <<awsCredentialCache, utc, builds>>
    /\ UNCHANGED <<storeVars, registryVars, managerVars, updateVars>>

\* awsCredentialCache[cacheKey] = cache{...}, Unlock and return creds
StoreCredentials(g) ==
    /\ getters[g].pc = "Locked"
    /\ awsCredentialCache' =
           (getters[g].cacheKey :> [credential |-> getters[g].credential,
                                    expiration |-> getters[g].expiration])
           @@ awsCredentialCache
    /\ credentialCacheLock' = [credentialCacheLock EXCEPT !.writer = {}]
    /\ getters' = [getters EXCEPT ![g] =
           [@ EXCEPT !.pc = "Returned", !.result = getters[g].credential]]
    /\ UNCHANGED <<utc, builds>>
    /\ UNCHANGED <<storeVars, registryVars, managerVars, updateVars>>

\* five minutes pass
AdvanceClock ==
    /\ utc < MaxTicks
    /\ utc' = utc + 1
    /\ UNCHANGED <<awsCredentialCache, credentialCacheLock, getters, builds>>
    /\ UNCHANGED <<storeVars, registryVars, managerVars, updateVars>>

InitAwsVars ==
    /\ awsCredentialCache = [k \in {} |-> 0]
    /\ credentialCacheLock = Unlocked
    /\ getters = [g \in Goroutines |-> IdleGetter]
    /\ utc = 0
    /\ builds = 0

NextAws ==
    \/ \E g \in Goroutines, dsInfo \in DatasourceInfos : GetCredentials(g, dsInfo)
    \/ \E g \in Goroutines : ReadCache(g)
    \/ \E g \in Goroutines : \E outcome \in BuildOutcomes(getters[g].dsInfo) :
           BuildCredentials(g, outcome)
    \/ \E g \in Goroutines : LockCache(g)
    \/ \E g \in Goroutines : StoreCredentials(g)
    \/ AdvanceClock

(***************************************************************************)
(* The update checker (updatechecker.GrafanaService). One goroutine, Run,   *)
(* calls checkForUpdates again and again; any number of request goroutines  *)
(* call UpdateAvailable and LatestVersion. hasUpdate and latestVersion are  *)
(* guarded by the RWMutex mutex. Strings are strings, so the prefix test,   *)
(* the search for "-" and the parsing of versions are computed.             *)
(***************************************************************************)
Readers == {"r1", "r2"}

BuildVersions == {"1.1", "1.2-pre"}

\* the values latest.json can carry in "stable" and "testing"
Published == {"", "1.1", "1.2-pre", "2.0"}

latestJSON == [Stable : Published, Testing : Published]

NoLatest == [Stable |-> "", Testing |-> ""]

\* strings.Contains
Contains(s, substr) ==
    \E i \in 0..(Len(s) - Len(substr)) : SubSeq(s, i + 1, i + Len(substr)) = substr

\* first index of a one-character string in s, 0 when there is none
IndexOf(s, ch) ==
    IF Contains(s, ch)
    THEN CHOOSE i \in 1..Len(s) :
             /\ SubSeq(s, i, i) = ch
             /\ \A j \in 1..(i - 1) : SubSeq(s, j, j) # ch
    ELSE 0

IsDigits(s) ==
    /\ s # ""
    /\ \A i \in 1..Len(s) : \E d \in 0..9 : SubSeq("0123456789", d + 1, d + 1) = SubSeq(s, i, i)

RECURSIVE Number(_)
Number(s) ==
    IF s = "" THEN 0
    ELSE Number(SubSeq(s, 1, Len(s) - 1)) * 10
         + (CHOOSE d \in 0..9 : SubSeq("0123456789", d + 1, d + 1) = SubSeq(s, Len(s), Len(s)))

RECURSIVE Segments(_)
Segments(s) ==
    LET dot == IndexOf(s, ".")
    IN IF dot = 0 THEN <<s>>
       ELSE <<SubSeq(s, 1, dot - 1)>> \o Segments(SubSeq(s, dot + 1, Len(s)))

\* version.NewVersion: dotted numbers, padded to three segments, and an
\* optional prerelease after "-"
NewVersion(s) ==
    LET dash == IndexOf(s, "-")
        core == IF dash = 0 THEN s ELSE SubSeq(s, 1, dash - 1)
        pre == IF dash = 0 THEN "" ELSE SubSeq(s, dash + 1, Len(s))
        segs == Segments(core)
        ok == /\ \A i \in 1..Len(segs) : IsDigits(segs[i])
              /\ dash # 0 => pre # ""
    IN IF ok
       THEN [err |-> FALSE,
             segments |-> [i \in 1..3 |-> IF i <= Len(segs) THEN Number(segs[i]) ELSE 0],
             pre |-> pre]
       ELSE [err |-> TRUE, segments |-> <<0, 0, 0>>, pre |-> ""]

\* Version.LessThan: by segments, then a prerelease is before its release
LessThan(a, b) ==
    \/ \E i \in 1..3 :
           /\ a.segments[i] < b.segments[i]
           /\ \A j \in 1..(i - 1) : a.segments[j] = b.segments[j]
    \/ /\ a.segments = b.segments
       /\ a.pre # ""
       /\ b.pre = ""

\* s.latestVersion as the critical section writes it
LatestFor(current, latest) ==
    IF Contains(current, "-") THEN latest.Testing ELSE latest.Stable

\* s.hasUpdate after the string comparison
HasUpdateByString(current, latest) ==
    IF Contains(current, "-")
    THEN ~HasPrefix(current, latest.Testing)
    ELSE latest.Stable # current

\* s.hasUpdate after the comparison of the parsed versions
HasUpdateByVersion(current, newest, before) ==
    LET currVersion == NewVersion(current)
        latestVer == NewVersion(newest)
    IN IF ~currVersion.err /\ ~latestVer.err
       THEN LessThan(currVersion, latestVer)
       ELSE before

IdleChecker ==
    [pc |-> "Idle", latest |-> NoLatest, err |-> "",
     before |-> [hasUpdate |-> FALSE, latestVersion |-> ""]]

IdleReader == [pc |-> "Idle", method |-> "", flag |-> FALSE, text |-> ""]

RLockableAlways(mu) == TRUE

\* sync.RWMutex: RLock waits while a writer holds the mutex
RLockable(mu) == mu.writer = {}

\* sync.RWMutex: Lock waits while anyone holds the mutex
Lockable(mu) == mu.writer = {} /\ mu.readers = {}

\* checkForUpdates up to the request for latest.json
CheckForUpdates ==
    /\ checker.pc \in {"Idle", "Failed", "Succeeded"}
    /\ checker' = [IdleChecker EXCEPT !.pc = "Getting",
                      !.before = [hasUpdate |-> hasUpdate, latestVersion |-> latestVersion]]
    /\ UNCHANGED <<hasUpdate, latestVersion, grafanaVersion, mutex, readers>>
    /\ UNCHANGED <<storeVars, registryVars, managerVars, awsVars>>

\* s.httpClient.Get returns
HttpGet(failed) ==
    /\ checker.pc = "Getting"
    /\ checker' = IF failed
                  THEN [checker EXCEPT !.pc = "Failed", !.err = "Get"]
                  ELSE [checker EXCEPT !.pc = "Reading"]
    /\ UNCHANGED <<hasUpdate, latestVersion, grafanaVersion, mutex, readers>>
    /\ UNCHANGED <<storeVars, registryVars, managerVars, awsVars>>

\* io.ReadAll returns
ReadAll(failed) ==
    /\ checker.pc = "Reading"
    /\ checker' = IF failed
                  THEN [checker EXCEPT !.pc = "Failed", !.err = "ReadAll"]
                  ELSE [checker EXCEPT !.pc = "Parsing"]
    /\ UNCHANGED <<hasUpdate, latestVersion, grafanaVersion, mutex, readers>>
    /\ UNCHANGED <<storeVars, registryVars, managerVars, awsVars>>

\* json.Unmarshal fails
UnmarshalFails ==
    /\ checker.pc = "Parsing"
    /\ checker' = [checker EXCEPT !.pc = "Failed", !.err = "Unmarshal"]
    /\ UNCHANGED <<hasUpdate, latestVersion, grafanaVersion, mutex, readers>>
    /\ UNCHANGED <<storeVars, registryVars, managerVars, awsVars>>

\* json.Unmarshal fills latest
Unmarshal(latest) ==
    /\ checker.pc = "Parsing"
    /\ checker' = [checker EXCEPT !.pc = "Parsed", !.latest = latest]
    /\ UNCHANGED <<hasUpdate, latestVersion, grafanaVersion, mutex, readers>>
    /\ UNCHANGED <<storeVars, registryVars, managerVars, awsVars>>

\* s.mutex.Lock()
MutexLock ==
    /\ checker.pc = "Parsed"
    /\ Lockable(mutex)
    /\ mutex' = [mutex EXCEPT !.writer = {"Run"}]
    /\ checker' = [checker EXCEPT !.pc = "Locked"]
    /\ UNCHANGED <<hasUpdate, latestVersion, grafanaVersion, readers>>
    /\ UNCHANGED <<storeVars, registryVars, managerVars, awsVars>>

\* s.latestVersion = latest.Testing or latest.Stable
WriteLatestVersion ==
    /\ checker.pc = "Locked"
    /\ latestVersion' = LatestFor(grafanaVersion, checker.latest)
    /\ checker' = [checker EXCEPT !.pc = "WroteLatestVersion"]
    /\ UNCHANGED <<hasUpdate, grafanaVersion, mutex, readers>>
    /\ UNCHANGED <<storeVars, registryVars, managerVars, awsVars>>

\* s.hasUpdate = the comparison of the strings
WriteHasUpdate ==
    /\ checker.pc = "WroteLatestVersion"
    /\ hasUpdate' = HasUpdateByString(grafanaVersion, checker.latest)
    /\ checker' = [checker EXCEPT !.pc = "WroteHasUpdate"]
    /\ UNCHANGED <<latestVersion, grafanaVersion, mutex, readers>>
    /\ UNCHANGED <<storeVars, registryVars, managerVars, awsVars>>

\* the comparison of the parsed versions, then the deferred Unlock
CompareAndUnlock ==
    /\ checker.pc = "WroteHasUpdate"
    /\ hasUpdate' = HasUpdateByVersion(grafanaVersion, latestVersion, hasUpdate)
    /\ mutex' = [mutex EXCEPT !.writer = {}]
    /\ checker' = [checker EXCEPT !.pc = "Succeeded"]
    /\ UNCHANGED <<latestVersion, grafanaVersion, readers>>
    /\ UNCHANGED <<storeVars, registryVars, managerVars, awsVars>>

\* UpdateAvailable or LatestVersion up to s.mutex.RLock()
MutexRLock(r, method) ==
    /\ readers[r].pc \in {"Idle", "Returned"}
    /\ RLockable(mutex)
    /\ mutex' = [mutex EXCEPT !.readers = @ \cup {r}]
    /\ readers' = [readers EXCEPT ![r] = [IdleReader EXCEPT !.pc = "RLocked", !.method = method]]
    /\ UNCHANGED <<hasUpdate, latestVersion, grafanaVersion, checker>>
    /\ UNCHANGED <<storeVars, registryVars, managerVars, awsVars>>

\* return s.hasUpdate, with the deferred RUnlock
UpdateAvailable(r) ==
    /\ readers[r].pc = "RLocked"
    /\ readers[r].method = "UpdateAvailable"
    /\ readers' = [readers EXCEPT ![r] = [@ EXCEPT !.pc = "Returned", !.flag = hasUpdate]]
    /\ mutex' = [mutex EXCEPT !.readers = @ \ {r}]
    /\ UNCHANGED <<hasUpdate, latestVersion, grafanaVersion, checker>>
    /\ UNCHANGED <<storeVars, registryVars, managerVars, awsVars>>

\* return s.latestVersion, with the deferred RUnlock
LatestVersion(r) ==
    /\ readers[r].pc = "RLocked"
    /\ readers[r].method = "LatestVersion"
    /\ readers' = [readers EXCEPT ![r] = [@ EXCEPT !.pc = "Returned", !.text = latestVersion]]
    /\ mutex' = [mutex EXCEPT !.readers = @ \ {r}]
    /\ UNCHANGED <<hasUpdate, latestVersion, grafanaVersion, checker>>
    /\ UNCHANGED <<storeVars, registryVars, managerVars, awsVars>>

\* the fields of a GrafanaService nobody has configured
InitUpdateFields ==
    /\ hasUpdate = FALSE
    /\ latestVersion = ""
    /\ mutex = Unlocked
    /\ checker = IdleChecker
    /\ readers = [r \in Readers |-> IdleReader]

InitUpdateVars == InitUpdateFields /\ grafanaVersion = ""

NextUpdate ==
    \/ CheckForUpdates
    \/ \E failed \in BOOLEAN : HttpGet(failed)
    \/ \E failed \in BOOLEAN : ReadAll(failed)
    \/ UnmarshalFails
    \/ \E latest \in latestJSON : Unmarshal(latest)
    \/ MutexLock
    \/ WriteLatestVersion
    \/ WriteHasUpdate
    \/ CompareAndUnlock
    \/ \E r \in Readers, method \in {"UpdateAvailable", "LatestVersion"} : MutexRLock(r, method)
    \/ \E r \in Readers : UpdateAvailable(r)
    \/ \E r \in Readers : LatestVersion(r)

InitServiceVars == InitAwsVars /\ InitUpdateVars

NoBackend == [u \in Uids |-> Absent]

InitStore == InitStoreVars /\ InitRegistryVars /\ InitManagerVars /\ InitServiceVars /\ stored = NoBackend
SpecStore == InitStore /\ [][NextStore]_vars

InitRegistry == InitStoreVars /\ InitRegistryVars /\ InitManagerVars /\ InitServiceVars /\ stored = NoBackend
SpecRegistry == InitRegistry /\ [][NextRegistry]_vars

Init ==
    /\ InitStoreVars
    /\ InitRegistryVars
    /\ InitManagerVars
    /\ InitServiceVars
    /\ stored \in Backends
Next == NextManager
Spec == Init /\ [][Next]_vars

\* The page operations: loads and reloads by two callers.
PageOptions ==
    { [uid |-> "a", route |-> "Normal", params |-> NoParams],
      [uid |-> "a", route |-> "Normal", params |-> Params("x=1", "s1", 1, "now-6h")],
      [uid |-> "", route |-> "New", params |-> NoParams] }
ReloadParams ==
    { NoParams, Params("x=1", "s1", 2, "now-1h"), Params("x=2", "s1", 1, "now-6h"),
      Params("x=1", "s2", 1, "now-6h") }
PageBackends == {f \in Backends : f["a"] \in {"v1beta1", "v2alpha1"} /\ f["b"] = "v1beta1"}

InitPage ==
    /\ InitStoreVars
    /\ InitRegistryVars
    /\ InitManagerVars
    /\ InitServiceVars
    /\ stored \in PageBackends
NextPage ==
    \/ \E c \in Calls, o \in PageOptions : StartLoad(c, o)
    \/ \E c \in Calls, params \in ReloadParams : StartReload(c, params)
    \/ \E c \in Calls : \E outcome \in AttemptOutcomes(c) : SettleAttempt(c, outcome)
    \/ Tick
SpecPage == InitPage /\ [][NextPage]_vars

\* The caches: one caller loads and reloads while the caches are read, written
\* and cleared.
Caller == "c1"
CacheOptions ==
    { [uid |-> "a", route |-> "Normal", params |-> NoParams],
      [uid |-> "b", route |-> "Normal", params |-> NoParams] }
CacheBackends ==
    {f \in Backends : f["a"] \in {"v1beta1", "v2alpha1"} /\ f["b"] = "v2alpha1"}
ScenesToSet == {Scene(Payload("v1", "a", "v1beta1"))}

InitCache ==
    /\ InitStoreVars
    /\ InitRegistryVars
    /\ InitManagerVars
    /\ InitServiceVars
    /\ stored \in CacheBackends
NextCache ==
    \/ \E o \in CacheOptions : StartLoad(Caller, o)
    \/ \E params \in {NoParams} : StartReload(Caller, params)
    \/ \E outcome \in AttemptOutcomes(Caller) : SettleAttempt(Caller, outcome)
    \/ ClearDashboardCache
    \/ ClearSceneCache
    \/ \E scene \in ScenesToSet : SetSceneCache(scene.uid, scene)
    \/ \E uid \in Uids : GetDashboardFromCache(uid)
    \/ \E cacheKey \in Uids : GetSceneFromCache(cacheKey)
    \/ GetCache
    \/ Tick
SpecCache == InitCache /\ [][NextCache]_vars

\* The v1 and the v2 manager used on their own (the instances that
\* getDashboardScenePageStateManager('v1') and ('v2') return): one caller loads,
\* reloads and loads snapshots on either of them.
DirectOptions ==
    { [uid |-> "a", route |-> "Normal", params |-> NoParams],
      [uid |-> "a", route |-> "Normal", params |-> Params("x=1", "s1", 1, "now-6h")] }
DirectParams == {NoParams, Params("x=2", "s1", 1, "now-6h")}
Slugs == {"b"}
DirectBackends ==
    {f \in Backends : f["a"] \in {"v1beta1", "v2alpha1"}}

InitDirect ==
    /\ InitStoreVars
    /\ InitRegistryVars
    /\ InitManagerVars
    /\ InitServiceVars
    /\ stored \in DirectBackends
NextDirect ==
    \/ \E m \in Managers, o \in DirectOptions : StartLoadOn(Caller, m, o)
    \/ \E m \in Managers, params \in DirectParams : StartReloadOn(Caller, m, params)
    \/ \E m \in Managers, slug \in Slugs : StartSnapshotOn(Caller, m, slug)
    \/ \E outcome \in AttemptOutcomes(Caller) : SettleDirect(Caller, outcome)
    \/ Tick
SpecDirect == InitDirect /\ [][NextDirect]_vars

\* Snapshots through the unified manager: one caller fetches dashboards and
\* loads snapshots.
SnapshotOptions ==
    { [uid |-> "a", route |-> "Normal", params |-> NoParams],
      [uid |-> "b", route |-> "Normal", params |-> NoParams] }
SnapshotBackends ==
    {f \in Backends : f["a"] \in {"v2alpha1", Absent} /\ f["b"] = "v1beta1"}

InitSnapshot ==
    /\ InitStoreVars
    /\ InitRegistryVars
    /\ InitManagerVars
    /\ InitServiceVars
    /\ stored \in SnapshotBackends
NextSnapshot ==
    \/ \E o \in SnapshotOptions : StartFetch(Caller, o)
    \/ \E slug \in Uids : StartSnapshot(Caller, slug)
    \/ \E outcome \in AttemptOutcomes(Caller) : SettleAttempt(Caller, outcome)
    \/ Tick
SpecSnapshot == InitSnapshot /\ [][NextSnapshot]_vars

\* The raw-response cache through the unified manager: one caller fetches
\* while responses of the backend are stored and read by hand.
StoredPayloads(uid) ==
    IF stored[uid] = Absent THEN {}
    ELSE {Payload(Family(stored[uid]), uid, stored[uid])}

InitRaw ==
    /\ InitStoreVars
    /\ InitRegistryVars
    /\ InitManagerVars
    /\ InitServiceVars
    /\ stored \in CacheBackends
NextRaw ==
    \/ \E o \in CacheOptions : StartFetch(Caller, o)
    \/ \E outcome \in AttemptOutcomes(Caller) : SettleAttempt(Caller, outcome)
    \/ \E uid \in Uids : \E d \in StoredPayloads(uid) : SetDashboardCache(uid, d)
    \/ \E uid \in Uids : GetDashboardFromCache(uid)
    \/ ClearDashboardCache
    \/ Tick
SpecRaw == InitRaw /\ [][NextRaw]_vars

\* Snapshot scenes through the unified manager: two callers load the scenes of
\* snapshots stored in any version.
InitSnapshotScene ==
    /\ InitStoreVars
    /\ InitRegistryVars
    /\ InitManagerVars
    /\ InitServiceVars
    /\ stored \in Backends
NextSnapshotScene ==
    \/ \E c \in Calls, slug \in Uids : StartSnapshotScene(c, slug)
    \/ \E c \in Calls : \E outcome \in AttemptOutcomes(c) : SettleSnapshotScene(c, outcome)
SpecSnapshotScene == InitSnapshotScene /\ [][NextSnapshotScene]_vars

\* The scene caches: responses of saved revisions and of unsaved dashboards are
\* transformed by the three managers.
Revisions == 1..MaxRevision
SceneOptions ==
    { [uid |-> "a", route |-> "Normal", params |-> NoParams],
      [uid |-> "b", route |-> "Normal", params |-> NoParams],
      [uid |-> "", route |-> "New", params |-> NoParams] }
Responses(o) ==
    IF o.route = "New" THEN {Payload(m, "", "unsaved") : m \in Managers}
    ELSE IF stored[o.uid] = Absent THEN {}
    ELSE {Saved(Payload(Family(stored[o.uid]), o.uid, stored[o.uid]), r) : r \in Revisions}

InitScene ==
    /\ InitStoreVars
    /\ InitRegistryVars
    /\ InitManagerVars
    /\ InitServiceVars
    /\ stored \in Backends
NextScene ==
    \/ \E target \in Objects, o \in SceneOptions : \E rsp \in Responses(o) :
          TransformResponseToScene(target, rsp, o)
    \/ ClearSceneCache
SpecScene == InitScene /\ [][NextScene]_vars

(***************************************************************************)
(* Claims on the kind registry (checked under SpecRegistry)                *)
(***************************************************************************)
RegisteredPairs == {<<"Dashboard", ManifestVersions[i]>> : i \in 1..Len(ManifestVersions)}

\* C6: repeated calls of Resolve(kind, version) return the same kind and the
\* same exists flag; a registered pair yields the kind of that very version,
\* a pair that was never registered yields exists = FALSE with the zero kind.
C6_ResolveIdempotent ==
    /\ [][\A p \in QueryPairs :
            (resolved[p].calls >= 1 /\ resolved'[p].calls > resolved[p].calls)
              => /\ resolved'[p].goType = resolved[p].goType
                 /\ resolved'[p].exists = resolved[p].exists]_vars
    /\ [](\A p \in QueryPairs :
            resolved[p].calls >= 1 =>
              IF p \in RegisteredPairs
              THEN /\ resolved[p].exists
                   /\ resolved[p].goType.kind = p[1]
                   /\ resolved[p].goType.version = p[2]
              ELSE /\ ~resolved[p].exists
                   /\ resolved[p].goType = ZeroKind)

\* A registered pair and an unregistered one have each been resolved twice.
C6_Witness ==
    /\ resolved[<<"Dashboard", "v2alpha2">>].calls = 2
    /\ resolved[<<"Dashboard", "v2alpha2">>].exists
    /\ resolved[<<"Dashboard", "v3alpha1">>].calls = 2
    /\ ~resolved[<<"Dashboard", "v3alpha1">>].exists

AllVersionLabels == {p[2] : p \in QueryPairs}

ResolvableVersions(registry, kind) ==
    {v \in AllVersionLabels : Lookup(registry, kind, v).exists}

\* C7: no step adds, replaces or removes an entry of the registry, and the
\* versions of Dashboard that resolve are v0alpha1, v1beta1, v2alpha1 and
\* v2alpha2 in every reachable state.
C7_RegistryImmutable ==
    /\ [][kindVersionToGoType' = kindVersionToGoType]_vars
    /\ [](/\ ResolvableVersions(kindVersionToGoType, "Dashboard")
               = {"v0alpha1", "v1beta1", "v2alpha1", "v2alpha2"}
          /\ DOMAIN kindVersionToGoType
               = {KeyOf(p[1], p[2]) : p \in RegisteredPairs})

\* Lookups of registered and of unregistered pairs have been served.
C7_Witness ==
    /\ \A p \in RegisteredPairs : resolved[p].calls >= 1
    /\ \E p \in QueryPairs \ RegisteredPairs : resolved[p].calls >= 1

(***************************************************************************)
(* Claims on the version fallback of the unified manager (checked under    *)
(* Spec)                                                                   *)
(***************************************************************************)
Terminal(call) == call.pc \in {"Resolved", "Failed"}
Stepped(c) == calls'[c] # calls[c]

\* The dashboard of the call is stored in a version of the family of the manager
\* that was active when the call began.
PreferredIsStored(call) ==
    /\ stored[call.options.uid] # Absent
    /\ Family(stored[call.options.uid]) = call.preferred

PreferredDiffers(call) ==
    /\ stored[call.options.uid] # Absent
    /\ Family(stored[call.options.uid]) # call.preferred

\* C8: a fetch whose preferred version (that of the manager active when it
\* began) equals the stored version never enters FetchingFallback: the
\* operation is invoked once, on that manager, and no step of the fetch changes
\* the active manager.
C8_NoFallbackWhenVersionsAgree ==
    /\ [](\A c \in Calls :
            (calls[c].pc # "Idle" /\ PreferredIsStored(calls[c]))
              => /\ calls[c].pc # "FetchingFallback"
                 /\ calls[c].attempts = 1
                 /\ calls[c].mgr = calls[c].preferred)
    /\ [][\A c \in Calls :
            (Stepped(c) /\ PreferredIsStored(calls'[c]))
              => /\ activeManager' = activeManager
                 /\ Terminal(calls'[c])
                      \/ /\ calls'[c].pc = "FetchingPreferred"
                         /\ calls'[c].preferred = activeManager
                         /\ calls'[c].mgr = activeManager]_vars

\* A fetch that began with the v2 manager active, for a dashboard stored as v2,
\* has resolved with the v2 response after one invocation; another such fetch
\* has failed after one invocation.
C8_Witness ==
    /\ \E c \in Calls :
         /\ calls[c].pc = "Resolved"
         /\ PreferredIsStored(calls[c])
         /\ calls[c].preferred = "v2"
         /\ calls[c].attempts = 1
         /\ calls[c].result = Returned(Payload("v2", calls[c].options.uid,
                                               stored[calls[c].options.uid]))
    /\ \E c \in Calls :
         /\ calls[c].pc = "Failed"
         /\ PreferredIsStored(calls[c])
         /\ calls[c].attempts = 1

\* C9 as stated: every fetch whose preferred version differs from the stored
\* version has gone through FetchingFallback exactly once when it ends.
C9_FallbackWheneverVersionsDiffer ==
    \A c \in Calls :
       (Terminal(calls[c]) /\ PreferredDiffers(calls[c])) => calls[c].attempts = 2

\* C9, amended: a fetch enters FetchingFallback exactly when its preferred
\* attempt signals a version mismatch, and then exactly once: the attempt made
\* there is the second and last one, whatever the two attempts answer, and its
\* settlement ends the fetch in Resolved or Failed. The operation is never
\* invoked more than twice within one fetch.
C9_OneFallbackHop ==
    /\ [](\A c \in Calls :
            /\ calls[c].attempts <= 2
            /\ (calls[c].pc = "FetchingFallback" => calls[c].attempts = 2)
            /\ (calls[c].pc = "FetchingPreferred" => calls[c].attempts = 1)
            /\ (Terminal(calls[c]) /\ calls[c].attempts = 2
                  => PreferredDiffers(calls[c])))
    /\ [][\A c \in Calls :
            /\ (Stepped(c) /\ calls[c].pc = "FetchingPreferred")
                 => /\ calls'[c].pc \in {"FetchingFallback", "Resolved", "Failed"}
                    /\ calls'[c].pc = "FetchingFallback"
                         <=> IsVersionError(calls'[c].settled)
            /\ (Stepped(c) /\ calls[c].pc = "FetchingFallback")
                 => /\ Terminal(calls'[c])
                    /\ calls'[c].attempts = 2]_vars

\* A fetch whose preferred attempt signalled a mismatch has resolved through
\* the fallback; another one has failed there.
C9_Witness ==
    /\ \E c \in Calls :
         /\ calls[c].pc = "Resolved"
         /\ calls[c].attempts = 2
         /\ calls[c].preferred = "v1"
         /\ calls[c].result.value.format = "v2"
    /\ \E c \in Calls :
         /\ calls[c].pc = "Failed"
         /\ calls[c].attempts = 2

\* C10: when the fallback attempt itself signals a version mismatch, the fetch
\* ends in Failed and throws that error to the caller; the attempt in
\* FetchingFallback is the last one, through whichever manager.
C10_ChainedMismatchFails ==
    /\ [](\A c \in Calls :
            (Terminal(calls[c]) /\ calls[c].attempts >= 2
               /\ IsVersionError(calls[c].settled))
              => /\ calls[c].pc = "Failed"
                 /\ calls[c].result = calls[c].settled
                 /\ calls[c].attempts = 2)
    /\ [][\A c \in Calls :
            (Stepped(c) /\ calls[c].pc = "FetchingFallback")
              => /\ Terminal(calls'[c])
                 /\ calls'[c].attempts = calls[c].attempts
                 /\ calls'[c].mgr = calls[c].mgr]_vars

\* A fetch has failed with the version error of its fallback attempt.
C10_Witness ==
    \E c \in Calls :
       /\ calls[c].pc = "Failed"
       /\ calls[c].attempts = 2
       /\ IsVersionError(calls[c].result)
       /\ calls[c].result.error.storedVersion = stored[calls[c].options.uid]

\* C11: on a version mismatch the retry goes through the manager bound to the
\* version reported as stored, for each of v0alpha1, v1beta1, v2alpha1 and
\* v2alpha2: while a fetch is in FetchingFallback, the manager of the attempt in
\* flight is the one that serves the stored version carried by the error.
C11_FallbackManagerHandlesStored ==
    \A c \in Calls :
       calls[c].pc = "FetchingFallback"
         => /\ IsVersionError(calls[c].settled)
            /\ calls[c].settled.error.storedVersion \in StoredChoices \ {Absent}
            /\ calls[c].mgr = Family(calls[c].settled.error.storedVersion)

InFlight(call) == call.pc \in {"FetchingPreferred", "FetchingFallback"}

\* C14: no two fetches for the same identity interleave: while one fetch is
\* between its start and its end, no other fetch for the same identity takes a
\* step (it neither starts nor settles an attempt nor switches the active
\* manager).
C14_FetchesDoNotInterleave ==
    [][\A c, d \in Calls :
         (c # d /\ InFlight(calls[c]) /\ Stepped(d))
           => calls'[d].options.uid # calls[c].options.uid]_vars

\* C12: after a fetch has ended in Resolved the active manager is the manager
\* that performed it, and it stays the active manager, to which every reload
\* and every cache read is dispatched, until another fetch resolves through a
\* different manager: with one caller, when a fetch ends in Resolved the active
\* manager is the manager of that fetch, and when it ends in Failed the active
\* manager is the one from before the fetch.
C12_ActiveManagerFollowsResolvedFetch ==
    [][/\ \A c \in Calls :
            (Stepped(c) /\ calls'[c].pc = "Resolved"
               /\ calls'[c].op # "reloadDashboard")
              => activeManager' = calls'[c].mgr
       /\ \A c \in Calls :
            (Stepped(c) /\ calls'[c].op = "reloadDashboard")
              => calls'[c].mgr = activeManager
       /\ (read' # read /\ read'.method = "getDashboardFromCache")
              => read'.value = getDashboardFromCache(dashboardCache[activeManager],
                                                     read'.key, now)
       /\ (read' # read /\ read'.method = "getCache")
              => read'.value = cache[activeManager]
       /\ \A c \in Calls :
            (Stepped(c) /\ InFlight(calls[c]) /\ calls'[c].pc = "Failed")
              => activeManager' = calls[c].preferred]_vars

\* The options of the last load recorded in the page state of the unified
\* manager.
LastLoad == Field(state["unified"], "options")

\* C13: when two loadDashboard calls for the same identity overlap and the
\* older one completes after the newer one, the older result is discarded: the
\* completion of the older call changes neither the page state nor either
\* cache, so the state stays that of the latest issued request.
C13_OlderResultDiscarded ==
    [][\A c \in Calls :
         (/\ Stepped(c)
          /\ InFlight(calls[c]) /\ Terminal(calls'[c])
          /\ calls[c].op = "loadDashboard"
          /\ lastIssued \in Calls \ {c}
          /\ calls[lastIssued].op = "loadDashboard"
          /\ Terminal(calls[lastIssued])
          /\ calls[lastIssued].options.uid = calls[c].options.uid)
           => /\ state' = state
              /\ cache' = cache
              /\ dashboardCache' = dashboardCache]_vars

\* C15: reload(params) is a no-op when variables and scopes equal those of the
\* last load, even when version or timeRange differ and whichever manager is
\* active: it ends at once without an error, issues no fetch and changes no
\* state.
C15_ReloadUnchangedIsNoOp ==
    [][\A c \in Calls : \A params \in ReloadParams :
         (/\ StartReload(c, params)
          /\ LastLoad # Undefined
          /\ VariablesOf(params) = VariablesOf(LastLoad.params)
          /\ ScopesOf(params) = ScopesOf(LastLoad.params))
           => /\ calls'[c].pc = "Resolved"
              /\ calls'[c].requests = 0
              /\ state' = state
              /\ cache' = cache
              /\ dashboardCache' = dashboardCache]_vars

\* C16: reload(params) with variables or scopes different from those of the
\* last load issues exactly one fetch, also when the last load was done by
\* loadDashboard of the unified manager: the reload goes on with one
\* fetchDashboard call in flight.
C16_ReloadChangedFetchesOnce ==
    [][\A c \in Calls : \A params \in ReloadParams :
         (/\ StartReload(c, params)
          /\ LastLoad # Undefined
          /\ \/ VariablesOf(params) # VariablesOf(LastLoad.params)
             \/ ScopesOf(params) # ScopesOf(LastLoad.params))
           => /\ calls'[c].pc = "FetchingPreferred"
              /\ calls'[c].attempts = 1
              /\ calls'[c].options.uid = LastLoad.uid
              /\ calls'[c].options.params = params]_vars

\* C20: a dashboard that is not persisted (fetched on the New route, or with an
\* empty uid) bypasses both caches: no raw-response entry and no cached scene
\* is ever one of an unsaved dashboard or stored under the empty uid.
C20_UnsavedBypassesCaches ==
    \A m \in Objects :
       /\ dashboardCache[m] # NoEntry
            => /\ dashboardCache[m].cacheKey # ""
               /\ dashboardCache[m].dashboard.storedVersion # "unsaved"
       /\ \A k \in SceneKeys :
            cache[m][k] # Undefined => (k # "" /\ cache[m][k].version # 0)

AllCachesEmpty ==
    /\ \A m \in Objects : dashboardCache[m] = NoEntry
    /\ \A m \in Objects : \A k \in SceneKeys : cache[m][k] = Undefined

\* C17: after clearDashboardCache and clearSceneCache on the unified manager
\* both tiers are empty for every key in the v1, the v2 and the unified
\* manager, and a fetch that follows gets nothing from before the clear: it is
\* sent to the backend, and the scene of its response is built anew.
C17_ClearedCachesServeNothing ==
    [][/\ ClearDashboardCache
            => \A m \in Objects :
                 /\ dashboardCache'[m] = NoEntry
                 /\ \A uid \in SceneKeys :
                      getDashboardFromCache(dashboardCache'[m], uid, now') = Null
       /\ ClearSceneCache
            => \A m \in Objects : \A k \in SceneKeys :
                 getSceneFromCache(cache'[m], k) = Undefined
       /\ \A c \in Calls :
            (AllCachesEmpty /\ Stepped(c) /\ ~InFlight(calls[c]) /\ InFlight(calls'[c]))
              => /\ calls'[c].held = Null
                 /\ calls'[c].requests = 1
       /\ \A c \in Calls :
            (/\ AllCachesEmpty /\ Stepped(c) /\ InFlight(calls[c])
             /\ calls[c].op = "loadDashboard" /\ calls[c].held = Null
             /\ calls'[c].pc = "Resolved" /\ calls'[c].result.value # Null)
              => /\ Field(state'["unified"], "dashboard") = Scene(calls'[c].result.value)
                 /\ cache'[calls'[c].mgr][calls'[c].options.uid]
                      = Scene(calls'[c].result.value)]_vars

\* Dashboard "a" was loaded less than a TTL ago, both caches have been cleared
\* since, and the load of "a" that followed is on its way to the backend.
C17_Witness ==
    /\ AllCachesEmpty
    /\ now < DASHBOARD_CACHE_TTL
    /\ LastLoad # Undefined
    /\ LastLoad.uid = "a"
    /\ LastLoad.params = NoParams
    /\ calls[Caller].pc = "FetchingPreferred"
    /\ calls[Caller].op = "loadDashboard"
    /\ calls[Caller].options = LastLoad
    /\ calls[Caller].held = Null
    /\ calls[Caller].requests = 1

\* C18: reading from the cache (getDashboardFromCache, getSceneFromCache,
\* getCache) never triggers a fetch and leaves the cache entries, the active
\* manager and the page state unchanged.
C18_CacheReadsChangeNothing ==
    [][(\/ \E uid \in Uids : GetDashboardFromCache(uid)
        \/ \E cacheKey \in Uids : GetSceneFromCache(cacheKey)
        \/ GetCache)
         => /\ calls' = calls
            /\ dashboardCache' = dashboardCache
            /\ cache' = cache
            /\ activeManager' = activeManager
            /\ state' = state]_vars

\* getDashboardFromCache has found the entry of the active manager expired and
\* has returned null; the entry is still there, and so is the cached scene.
C18_Witness ==
    /\ read.method = "getDashboardFromCache"
    /\ read.value = Null
    /\ dashboardCache[activeManager] # NoEntry
    /\ dashboardCache[activeManager].cacheKey = read.key
    /\ now - dashboardCache[activeManager].ts >= DASHBOARD_CACHE_TTL
    /\ cache[activeManager][read.key] # Undefined

\* The manager invokes fetchDashboard for call c in this step.
Invoked(c) ==
    /\ Stepped(c)
    /\ InFlight(calls'[c])
    /\ ~InFlight(calls[c]) \/ calls'[c].pc # calls[c].pc

\* C19: the raw-response cache returns an entry for a key only if the entry was
\* stored under that key less than 500 ms ago; at an age of 500 ms or more, or
\* for another key, it returns null. A fetch without params made within the
\* TTL for the key of the entry makes no backend round-trip: it is answered
\* with the entry.
C19_RawCacheWithinTtl ==
    /\ [](\A m \in Managers : \A key \in SceneKeys :
            LET entry == dashboardCache[m] IN
            IF entry # NoEntry /\ entry.cacheKey = key /\ now - entry.ts < 500
            THEN getDashboardFromCache(entry, key, now) = entry.dashboard
            ELSE getDashboardFromCache(entry, key, now) = Null)
    /\ [][\A c \in Calls :
            /\ Invoked(c)
                 => LET entry == dashboardCache'[calls'[c].mgr]
                        fresh == /\ calls'[c].options.params = NoParams
                                 /\ entry # NoEntry
                                 /\ entry.cacheKey = CacheKey(calls'[c].options)
                                 /\ now - entry.ts < 500
                        before == IF InFlight(calls[c]) THEN calls[c].requests ELSE 0
                    IN  IF fresh
                        THEN calls'[c].held = entry.dashboard /\ calls'[c].requests = before
                        ELSE calls'[c].held = Null /\ calls'[c].requests = before + 1
            /\ (Stepped(c) /\ InFlight(calls[c]) /\ calls[c].held # Null)
                 => /\ calls'[c].settled = Returned(calls[c].held)
                    /\ calls'[c].requests = calls[c].requests]_vars

\* A fetch without params is being answered from an entry stored half a TTL
\* ago, without a request to the backend, while the entry of the other manager
\* has reached the TTL and is no longer returned.
C19_Witness ==
    \E c \in Calls : \E m \in Managers :
       /\ InFlight(calls[c])
       /\ calls[c].requests = 0
       /\ calls[c].held # Null
       /\ calls[c].held = dashboardCache[calls[c].mgr].dashboard
       /\ now - dashboardCache[calls[c].mgr].ts = TickMs
       /\ dashboardCache[m] # NoEntry
       /\ now - dashboardCache[m].ts = DASHBOARD_CACHE_TTL
       /\ getDashboardFromCache(dashboardCache[m], dashboardCache[m].cacheKey, now) = Null

\* A step in which the version fallback of a call switches the active manager.
FallbackSwitch ==
    /\ activeManager' # activeManager
    /\ \E c \in Calls : Stepped(c) /\ calls'[c].pc = "FetchingFallback"

\* C21: the scene cache is invalidated whenever the active manager switches
\* because of a version fallback: no scene that was cached before the switch is
\* still served by a scene cache after it.
C21_FallbackSwitchInvalidatesScenes ==
    [][FallbackSwitch =>
          \A m \in Objects : \A k \in SceneKeys :
              getSceneFromCache(cache[m], k) # Undefined
                  => getSceneFromCache(cache'[m], k) = Undefined]_vars

\* The loadError of every page state is left as it was by the step.
LoadErrorsUnchanged ==
    \A m \in Objects : Field(state'[m], "loadError") = Field(state[m], "loadError")

\* C25: a version mismatch of the preferred attempt is surfaced only if the
\* fallback fails too: the mismatch starts the fallback attempt without setting
\* a loadError, and when the fallback attempt succeeds the caller receives its
\* result (a loadDashboard shows the scene of that response) and no step of the
\* operation has set a loadError in a page state.
C25_RecoveredMismatchNotSurfaced ==
    [][\A c \in Calls :
          /\ (/\ Stepped(c)
              /\ calls[c].pc = "FetchingPreferred"
              /\ IsVersionError(calls'[c].settled))
                => /\ calls'[c].pc = "FetchingFallback"
                   /\ LoadErrorsUnchanged
          /\ (/\ Stepped(c)
              /\ calls[c].pc = "FetchingFallback"
              /\ calls'[c].settled.type = "value")
                => /\ calls'[c].pc = "Resolved"
                   /\ calls'[c].result = calls'[c].settled
                   /\ calls'[c].result.value # Null
                        => calls'[c].result.value.format = calls[c].mgr
                   /\ LoadErrorsUnchanged
                   /\ (calls[c].op = "loadDashboard" /\ calls'[c].result.value # Null)
                        => /\ state'["unified"].dashboard = Scene(calls'[c].result.value)
                           /\ state'["unified"].isLoading = FALSE]_vars

\* A loadDashboard whose preferred attempt met a version mismatch has resolved
\* through the fallback manager: the page shows the scene and no loadError.
C25_Witness ==
    \E c \in Calls :
        /\ calls[c].op = "loadDashboard"
        /\ calls[c].pc = "Resolved"
        /\ calls[c].attempts = 2
        /\ calls[c].mgr # calls[c].preferred
        /\ calls[c].result.value # Null
        /\ Field(state["unified"], "dashboard") = Scene(calls[c].result.value)
        /\ Field(state["unified"], "loadError") = Undefined

\* C26: only a version mismatch triggers the local recovery: when the preferred
\* attempt fails with any other error (NotFound, TransientError, ...), the
\* operation has been invoked exactly once and has sent one request, the call
\* fails with the very error the backend answered, and the active manager is
\* the one it was.
C26_OnlyMismatchRecovered ==
    [][\A c \in Calls :
          (/\ Stepped(c)
           /\ calls[c].pc = "FetchingPreferred"
           /\ calls'[c].settled.type = "throw"
           /\ ~IsVersionError(calls'[c].settled))
             => /\ calls'[c].pc = "Failed"
                /\ calls'[c].attempts = 1
                /\ calls'[c].requests = 1
                /\ calls'[c].mgr = calls[c].preferred
                /\ calls'[c].result = calls'[c].settled
                /\ calls'[c].result \in BackendOutcomes(calls[c].mgr, calls[c].options)
                /\ activeManager' = activeManager]_vars

\* A fetch of a dashboard that does not exist has failed with NotFound after
\* one attempt on the manager that was and still is the active one.
C26_Witness ==
    \E c \in Calls :
        /\ calls[c].pc = "Failed"
        /\ calls[c].attempts = 1
        /\ calls[c].result = Thrown(FetchError("NotFound", FALSE))
        /\ stored[calls[c].options.uid] = Absent
        /\ activeManager = calls[c].preferred

\* C27: cache updates are atomic for readers: in every state the raw-response
\* entry of a manager is whole (its payload is the response for its key, in the
\* format of the manager, stamped with a time that has been reached); every
\* change of an entry installs the key, the response and the time of one
\* settled fetch together; and what a fetch reads from the cache is the payload
\* for the key it asked for.
C27_CacheEntryFromOneWrite ==
    /\ [](\A m \in Managers :
            LET entry == dashboardCache[m] IN
            entry # NoEntry
              => /\ entry.dashboard # Null
                 /\ entry.dashboard.uid = entry.cacheKey
                 /\ entry.dashboard.format = m
                 /\ entry.ts <= now
                 /\ getDashboardFromCache(entry, entry.cacheKey, entry.ts) = entry.dashboard)
    /\ [][/\ \A m \in Managers :
               dashboardCache'[m] # dashboardCache[m]
                 => \E c \in Calls :
                      /\ Stepped(c)
                      /\ calls[c].mgr = m
                      /\ calls'[c].settled.type = "value"
                      /\ dashboardCache'[m] =
                           [dashboard |-> calls'[c].settled.value, ts |-> now,
                            cacheKey |-> CacheKey(calls[c].options)]
          /\ \A c \in Calls :
               (Stepped(c) /\ calls'[c].held # Null)
                 => calls'[c].held.uid = CacheKey(calls'[c].options)]_vars

\* A fetch is being answered with the whole entry it read for its key, while
\* the other caller's fetch has since replaced that entry with the response
\* for another key.
C27_Witness ==
    \E c \in Calls :
        /\ InFlight(calls[c])
        /\ calls[c].held # Null
        /\ calls[c].held.uid = CacheKey(calls[c].options)
        /\ dashboardCache[calls[c].mgr] # NoEntry
        /\ dashboardCache[calls[c].mgr].cacheKey # calls[c].held.uid
        /\ dashboardCache[calls[c].mgr].ts > 0

\* C28: whenever a loadDashboard settles, the page state has isLoading = false,
\* whatever the fetch returned: a response that became a scene, an error, or
\* null (a cancelled request).
C28_SettledLoadNotLoading ==
    [][\A c \in Calls :
          (/\ Stepped(c)
           /\ calls[c].op = "loadDashboard"
           /\ InFlight(calls[c])
           /\ Terminal(calls'[c]))
             => Field(state'["unified"], "isLoading") = FALSE]_vars

\* C29: a fetch that ends in Failed leaves the active manager as it was before
\* the fetch: after a version mismatch of the preferred attempt and a failure
\* of the fallback attempt, the active manager is again the manager the fetch
\* began with.
C29_FailedFetchKeepsActiveManager ==
    [][\A c \in Calls :
          (Stepped(c) /\ InFlight(calls[c]) /\ calls'[c].pc = "Failed")
             => activeManager' = calls[c].preferred]_vars

\* C22: caching never exposes a scene of another version: the scene that
\* transformResponseToScene returns for a response has the version of that
\* response (dashboard.version or metadata.generation) and its uid and format;
\* for a saved dashboard it is the scene the cache of the transforming manager
\* then holds for the uid, so a cached scene of another version has been
\* replaced and is not returned.
C22_SceneHasVersionOfResponse ==
    /\ [](read.method = "transformResponseToScene"
            => /\ read.value.version = VersionOf(read.rsp)
               /\ read.value = Scene(read.rsp)
               /\ (read.fromCache # Undefined /\ read.fromCache.version # VersionOf(read.rsp))
                    => read.value # read.fromCache)
    /\ [][read'.method = "transformResponseToScene" /\ read' # read
            => LET m == read'.manager
                   uid == read'.options.uid
               IN  IF uid = ""
                   THEN cache'[m] = cache[m]
                   ELSE /\ getSceneFromCache(cache'[m], uid) = read'.value
                        /\ getSceneFromCache(cache'[m], uid).version = VersionOf(read'.rsp)]_vars

\* A response of the latest revision has been transformed while the cache held
\* the scene of an older revision of the dashboard: the scene returned and now
\* cached is the one of the response.
C22_Witness ==
    /\ read.method = "transformResponseToScene"
    /\ read.fromCache # Undefined
    /\ read.fromCache.version < VersionOf(read.rsp)
    /\ read.value.version = MaxRevision
    /\ getSceneFromCache(cache[read.manager], read.options.uid) = read.value

\* The answer of a backend request that was cancelled.
CancelledRequest == Thrown(FetchError("Cancelled", TRUE))

\* C23: a cancelled fetch is swallowed silently: in a step in which the backend
\* request of a call fails with a cancelled fetch error, fetchDashboard returns
\* null, no loadError is set in a page state and neither the raw-response
\* caches nor the scene caches are written.
C23_CancelledFetchSwallowed ==
    [][\A c \in Calls :
          (SettleAttempt(c, CancelledRequest) \/ SettleDirect(c, CancelledRequest))
             => /\ calls'[c].settled = Returned(Null)
                /\ LoadErrorsUnchanged
                /\ dashboardCache' = dashboardCache
                /\ cache' = cache]_vars

\* The fields of a LoadError.
LoadErrorFields == {"status", "messageId", "message"}

\* C24: every failure other than a recovered version mismatch and a
\* cancellation ends as a LoadError in the page state, with a status code, a
\* message identifier and a message, on loadDashboard, loadSnapshot and
\* reloadDashboard: a loadError in a page state has the three fields, and when
\* an operation fails the page state of its manager has a loadError.
C24_FailuresEndAsLoadError ==
    /\ [](\A m \in Objects :
            Field(state[m], "loadError") # Undefined
              => DOMAIN state[m].loadError = LoadErrorFields)
    /\ [][\A c \in Calls :
            (Stepped(c) /\ calls'[c].pc = "Failed")
              => /\ Field(state'[calls'[c].mgr], "loadError") # Undefined
                 /\ state'[calls'[c].mgr].isLoading = FALSE]_vars

\* The page state of the unified manager has every field of the page state of
\* manager m, with the same value.
SyncedWith(m) ==
    \A k \in DOMAIN state'[m] : Field(state'["unified"], k) = state'[m][k]

\* C30: when an operation run through withVersionHandling returns, the page
\* state of the unified manager has been synchronised with the state of the
\* manager that performed the operation, whether that manager was the active
\* one or the fallback.
C30_StateSyncedOnReturn ==
    [][\A c \in Calls :
          (/\ Stepped(c)
           /\ calls[c].pc \in {"FetchingPreferred", "FetchingFallback"}
           /\ calls[c].op \in {"fetchDashboard", "loadSnapshot"}
           /\ calls'[c].pc = "Resolved")
             => SyncedWith(calls'[c].mgr)]_vars

\* C31: in every page state dashboard and loadError are not both defined: when
\* a load has succeeded, a loadError set by an earlier failed load or reload is
\* no longer in the page state.
C31_DashboardExcludesLoadError ==
    \A m \in Objects :
        ~(/\ Field(state[m], "dashboard") # Undefined
          /\ Field(state[m], "loadError") # Undefined)

\* C32: reloadDashboard is idempotent in its parameters: when the last
\* operation of a caller on the v1 manager was a reload with parameters p that
\* completed without error, a reload with the same p that follows it returns
\* without a fetch, also when the first reload found the cached scene to have
\* the version of the response.
C32_RepeatedReloadFetchesNothing ==
    [][\A c \in Calls : \A params \in DirectParams :
          (/\ StartReloadOn(c, "v1", params)
           /\ calls[c].op = "reloadDashboard"
           /\ calls[c].mgr = "v1"
           /\ calls[c].pc = "Resolved"
           /\ calls[c].options.params = params
           /\ Field(state["v1"], "loadError") = Undefined)
             => /\ calls'[c].pc = "Resolved"
                /\ calls'[c].requests = 0
                /\ calls'[c].held = Null]_vars

\* C33: the raw-response cache of a manager holds at most one entry: when a
\* fetch stores its response under a key, the manager's cache returns that
\* response for the key and null for every other key, also for a key whose
\* entry was stored less than the TTL ago.
C33_RawCacheHoldsOneEntry ==
    [][\A c \in Calls :
          (/\ Stepped(c)
           /\ InFlight(calls[c])
           /\ calls[c].held = Null
           /\ calls'[c].settled.type = "value"
           /\ calls'[c].settled.value # Null)
             => LET entry == dashboardCache'[calls[c].mgr]
                    key == CacheKey(calls[c].options)
                IN  /\ getDashboardFromCache(entry, key, now) = calls'[c].settled.value
                    /\ \A k \in SceneKeys \ {key} :
                          getDashboardFromCache(entry, k, now) = Null]_vars

\* Two fetches have stored their responses in the same manager within the TTL,
\* first the one for dashboard a, then the one for b: the cache returns the
\* response for b and nothing for a.
C33_Witness ==
    \E c1, c2 \in Calls : \E m \in Managers :
        /\ calls[c1].pc = "Resolved" /\ calls[c2].pc = "Resolved"
        /\ calls[c1].mgr = m /\ calls[c2].mgr = m
        /\ calls[c1].options.uid = "a" /\ calls[c2].options.uid = "b"
        /\ calls[c1].requests = calls[c1].attempts
        /\ calls[c2].requests = calls[c2].attempts
        /\ calls[c1].result.value # Null
        /\ now < DASHBOARD_CACHE_TTL
        /\ getDashboardFromCache(dashboardCache[m], "b", now) = calls[c2].result.value
        /\ getDashboardFromCache(dashboardCache[m], "a", now) = Null

\* C34: a fetchDashboard call that carries params is never answered from the
\* raw-response cache: each attempt of it sends a backend request, also when
\* the manager holds an entry for the key that is younger than the TTL, and
\* what the attempt returns is the answer of the backend.
C34_ParamsBypassRawCache ==
    [][\A c \in Calls :
          /\ (Invoked(c) /\ calls'[c].options.params # NoParams)
               => /\ calls'[c].held = Null
                  /\ calls'[c].requests = calls'[c].attempts
          /\ (/\ Stepped(c)
              /\ InFlight(calls[c])
              /\ calls[c].options.params # NoParams
              /\ calls'[c].settled.type = "value"
              /\ calls'[c].settled.value # Null)
               => calls'[c].settled \in BackendOutcomes(calls[c].mgr, calls[c].options)]_vars

\* A fetch with params is waiting for the backend while the cache of its
\* manager holds an entry for the same key that is younger than the TTL.
C34_Witness ==
    \E c \in Calls :
        /\ InFlight(calls[c])
        /\ calls[c].options.params # NoParams
        /\ calls[c].held = Null
        /\ calls[c].requests = calls[c].attempts
        /\ getDashboardFromCache(dashboardCache[calls[c].mgr],
                                 CacheKey(calls[c].options), now) # Null

\* C35: on the unified manager setDashboardCache(key, d) followed at once by
\* getDashboardFromCache(key) returns d: in the state a setDashboardCache
\* leaves, the read of the active manager's cache for the key gives d.
C35_SetThenGetReturnsPayload ==
    [][\A uid \in Uids : \A d \in StoredPayloads(uid) :
          SetDashboardCache(uid, d)
            => getDashboardFromCache(dashboardCache'[activeManager'], uid, now') = d]_vars

\* C36: loadSnapshotScene of the unified manager tries the v1 manager first and
\* calls the v2 manager at most once, only after the v1 attempt has failed with
\* a version error whose stored version is v2alpha1; after any other failure
\* of the v1 attempt the v2 manager is not called and the error raised is
\* 'Snapshot not found'.
C36_SnapshotSceneFallsBackOnce ==
    [][\A c \in Calls :
          (Stepped(c) /\ calls'[c].op = "loadSnapshotScene")
            => IF calls[c].pc = "SnapshotV1"
               THEN LET attempt == calls'[c].settled IN
                    IF attempt.type = "value"
                    THEN /\ calls'[c].pc = "Resolved"
                         /\ calls'[c].result = attempt
                         /\ calls'[c].mgr = "v1" /\ calls'[c].attempts = 1
                    ELSE IF /\ attempt.error.name = "DashboardVersionError"
                            /\ attempt.error.storedVersion = "v2alpha1"
                    THEN /\ calls'[c].pc = "SnapshotV2"
                         /\ calls'[c].mgr = "v2" /\ calls'[c].attempts = 2
                    ELSE /\ calls'[c].pc = "Failed"
                         /\ calls'[c].result.error.name = "Snapshot not found"
                         /\ calls'[c].mgr = "v1" /\ calls'[c].attempts = 1
               ELSE IF calls[c].pc = "SnapshotV2"
               THEN /\ Terminal(calls'[c])
                    /\ calls'[c].mgr = "v2" /\ calls'[c].attempts = 2
               ELSE /\ calls'[c].pc = "SnapshotV1"
                    /\ calls'[c].mgr = "v1" /\ calls'[c].attempts = 1]_vars

\* The v1 attempt for a snapshot stored as v2alpha2 has failed with a version
\* error: the v2 manager was not called and 'Snapshot not found' is raised.
C36_Witness ==
    \E c \in Calls :
        /\ calls[c].op = "loadSnapshotScene"
        /\ calls[c].pc = "Failed"
        /\ calls[c].attempts = 1
        /\ IsVersionError(calls[c].settled)
        /\ calls[c].settled.error.storedVersion = "v2alpha2"
        /\ calls[c].result = Thrown(FetchError("Snapshot not found", FALSE))

(***************************************************************************)
(* The specification of the credential cache: two goroutines calling        *)
(* GetCredentials for two datasources while the clock advances.             *)
(***************************************************************************)
InitAws ==
    /\ InitStoreVars
    /\ InitRegistryVars
    /\ InitManagerVars
    /\ stored = NoBackend
    /\ InitAwsVars
    /\ InitUpdateVars

SpecAws == InitAws /\ [][NextAws]_vars

\* the goroutine's call returns in this step
Returns(g) == getters[g].pc \notin {"Returned", "Failed"} /\ getters'[g].pc \in {"Returned", "Failed"}

\* the credentials some entry of the cache holds
CachedCredentials == {awsCredentialCache[k].credential : k \in DOMAIN awsCredentialCache}

\* the call returns the credential the cache holds for its key, and the
\* entry's expiration is strictly after the current time
ReturnsCachedWhileFresh(g) ==
    LET key == getters[g].cacheKey
    IN /\ key \in DOMAIN awsCredentialCache
       /\ \E e \in awsCredentialCache[key].expiration : e > utc
       /\ getters'[g].pc = "Returned"
       /\ getters'[g].result = awsCredentialCache[key].credential
       /\ awsCredentialCache' = awsCredentialCache

\* the call returns a credential no entry held, and the entry of its key
\* now holds that credential
ReturnsNewlyBuilt(g) ==
    LET key == getters[g].cacheKey
    IN /\ getters'[g].pc = "Returned"
       /\ getters'[g].result \notin CachedCredentials
       /\ key \in DOMAIN awsCredentialCache'
       /\ awsCredentialCache'[key].credential = getters'[g].result

\* C37 (as stated): GetCredentials returns the cached credential of a key
\* only while the entry's expiration is strictly after the current time; in
\* every interleaving a call that finds its entry expired or absent does not
\* return it, and ends with the entry replaced by a newly built credential
\* with a new expiration.
C37_MissAlwaysReplaces ==
    [][\A g \in Goroutines :
          Returns(g) =>
              \/ ReturnsCachedWhileFresh(g)
              \/ /\ ReturnsNewlyBuilt(g)
                 /\ awsCredentialCache'[getters[g].cacheKey].expiration # NoExpiration]_vars

\* C37 (amended): GetCredentials returns the cached credential of a key only
\* while the entry's expiration is set and strictly after the current time;
\* in every interleaving a call that finds its entry expired or absent does
\* not return it: either building fails (a session or an AssumeRole error)
\* and the call returns the error and leaves the cache as it is, or the call
\* stores the newly built credential, with the expiration the build produced
\* (none when STS returned no credentials), and returns it.
C37_CachedOnlyWhileFresh ==
    [][\A g \in Goroutines :
          Returns(g) =>
              \/ ReturnsCachedWhileFresh(g)
              \/ /\ getters[g].found \in {"absent", "expired"}
                 /\ ReturnsNewlyBuilt(g)
                 /\ awsCredentialCache'[getters[g].cacheKey].expiration = getters[g].expiration
              \/ /\ getters[g].found \in {"absent", "expired"}
                 /\ getters'[g].pc = "Failed"
                 /\ getters'[g].err \in {"NewSession", "AssumeRole"}
                 /\ awsCredentialCache' = awsCredentialCache]_vars

\* one goroutine found its entry expired and replaced it, and the other was
\* then served that entry from the cache
C37_Witness ==
    \E g, h \in Goroutines :
        /\ g # h
        /\ getters[g].pc = "Returned"
        /\ getters[g].found = "expired"
        /\ getters[h].pc = "Returned"
        /\ getters[h].found = "fresh"
        /\ getters[h].cacheKey = getters[g].cacheKey
        /\ getters[h].result = getters[g].result

(***************************************************************************)
(* The specification of the update checker: the Run goroutine checking for  *)
(* updates again and again while two request goroutines call                *)
(* UpdateAvailable and LatestVersion, for a release build and for a         *)
(* prerelease build.                                                        *)
(***************************************************************************)
InitUpdate ==
    /\ InitStoreVars
    /\ InitRegistryVars
    /\ InitManagerVars
    /\ stored = NoBackend
    /\ InitAwsVars
    /\ InitUpdateFields
    /\ grafanaVersion \in BuildVersions

SpecUpdate == InitUpdate /\ [][NextUpdate]_vars

\* the check is between s.mutex.Lock() and the deferred Unlock
InCriticalSection == checker.pc \in {"Locked", "WroteLatestVersion", "WroteHasUpdate"}

\* hasUpdate and latestVersion are what they were when the check began
FieldsAsBefore ==
    /\ hasUpdate = checker.before.hasUpdate
    /\ latestVersion = checker.before.latestVersion

\* a call of UpdateAvailable or LatestVersion reads its field in this step
Reads(r) == readers[r].pc = "RLocked" /\ readers'[r].pc = "Returned"

\* C38: an update check that fails (HTTP error, unreadable body, invalid
\* JSON) leaves hasUpdate and latestVersion as they were when it began; a
\* check that succeeds writes both inside one critical section of the write
\* lock (they change only while Run holds it, and at the Unlock both have
\* the values of this check's latest.json), and no UpdateAvailable or
\* LatestVersion call holds the read lock or reads while the section is in
\* progress.
C38_UpdateWrittenAtomically ==
    /\ [](/\ checker.pc \in {"Getting", "Reading", "Parsing", "Parsed", "Failed"} => FieldsAsBefore
          /\ InCriticalSection => (mutex.writer = {"Run"} /\ mutex.readers = {})
          /\ \A r \in Readers : readers[r].pc = "RLocked" => ~InCriticalSection)
    /\ [][/\ (hasUpdate' # hasUpdate \/ latestVersion' # latestVersion)
                => (InCriticalSection /\ mutex.writer = {"Run"})
          /\ (InCriticalSection /\ checker'.pc = "Succeeded")
                => /\ latestVersion' = LatestFor(grafanaVersion, checker.latest)
                   /\ hasUpdate' = HasUpdateByVersion(grafanaVersion, latestVersion',
                                        HasUpdateByString(grafanaVersion, checker.latest))
                   /\ mutex'.writer = {}
          /\ \A r \in Readers :
                Reads(r) => /\ ~InCriticalSection
                            /\ readers'[r].flag = (readers[r].method = "UpdateAvailable" /\ hasUpdate)
                            /\ readers'[r].text = (IF readers[r].method = "LatestVersion"
                                                   THEN latestVersion ELSE "")]_vars

\* a check found version 2.0, a later check failed, and both readers were
\* served what the earlier check wrote
C38_Witness ==
    /\ checker.pc = "Failed"
    /\ checker.err = "Unmarshal"
    /\ hasUpdate
    /\ latestVersion = "2.0"
    /\ \E r, q \in Readers :
           /\ readers[r].pc = "Returned"
           /\ readers[r].method = "UpdateAvailable"
           /\ readers[r].flag
           /\ readers[q].pc = "Returned"
           /\ readers[q].method = "LatestVersion"
           /\ readers[q].text = "2.0"

====
